---------------------------- MODULE Spec2Model ----------------------------
(***************************************************************************)
(* Model of the roo-standalone orchestration layer:                        *)
(*   - the rate-card scoring of SkillExecutor._handle_points_action,       *)
(*   - RooAgent.handle_mention with its fast path,                         *)
(*   - the quest tracker of roo/quests.py,                                 *)
(*   - the points dispatcher (SkillExecutor._execute_mlai_points,          *)
(*     _handle_points_action) with PointsClient's admin operations.        *)
(* Each subsystem has its own specification over the shared variables; the *)
(* variables of the other subsystems stay at their initial value.          *)
(***************************************************************************)
EXTENDS Integers, Sequences, FiniteSets, TLC

VARIABLES
    \* ---- rate-card scoring (pure function, inputs drawn in Init)
    rc_card,        \* the rate card returned by client.get_rate_card()
    rc_reason,      \* params["reason"]
    rc_matches,     \* the sorted list `matches` of (score, item)
    rc_pc,          \* "input" | "ranked"
    rc_reply,       \* what the rate-card branch answers
    \* ---- RooAgent
    skills,         \* RooAgent.skills, the loaded registry (fixed after __init__)
    agent_pc,       \* position of the handle_mention task
    agent_req,      \* the arguments of the handle_mention call
    agent_skill,    \* the skill _select_skill returned (index, 0 for None)
    agent_result,   \* what the call returned
    agent_calls,    \* the calls made and exceptions raised so far, in order
    agent_bookings, \* the book_coworking requests issued, with their answers
    agent_answer,   \* what the skill-routing model call gave, None if not called
    monitor,        \* one run of _monitor_generation
    cf,             \* one content-factory request in _execute_content_factory
    \* ---- quest tracker (roo/quests.py) and the backend it talks to
    quest_progress,     \* _quest_progress: (user, quest) -> count
    completed_quests,   \* _completed_quests: set of (user, quest)
    first_posts,        \* backend: the recorded first posts (user, channel)
    reward_calls,       \* (user, quest) -> system_award_points calls issued
    reward_failed,      \* (user, quest) pairs whose reward did not go through
    quest_updates,      \* (user, quest) -> calls of _update_progress so far
    quest_tasks,        \* the handle_quests tasks in flight
    quest_events,       \* number of events delivered so far
    \* ---- points dispatcher (executor.py) and the points backend
    preq,               \* the execute() calls for the points skill, by slot
    backend_used,       \* backend: points the admin has awarded this week
    backend_log         \* backend: the mutating calls received, in order

rateVars == <<rc_card, rc_reason, rc_matches, rc_pc, rc_reply>>
agentVars == <<skills, agent_pc, agent_req, agent_skill, agent_result, agent_calls,
               agent_bookings, agent_answer>>
questVars == <<quest_progress, completed_quests, first_posts, reward_calls,
              reward_failed, quest_updates,
               quest_tasks, quest_events>>
pointsVars == <<preq, backend_used, backend_log>>
jobVars == <<monitor, cf>>
vars == <<rateVars, agentVars, questVars, pointsVars, jobVars>>

None == "None"

\* A handler's return value None, and an exception leaving the handler.
NoResult == [message |-> None, skill_used |-> None, data |-> None]
Raised == [message |-> "exception", skill_used |-> None, data |-> None]

(***************************************************************************)
(* Strings are sequences of characters over a small alphabet.  "A" is the  *)
(* upper-case form of "a", so that str.lower() is not the identity.        *)
(***************************************************************************)
Chars == {"a", "b", "A"}

MaxNameLen == 2

Lower(c) ==
    CASE c = "A" -> "a"
      [] c = "L" -> "l"
      [] c = "M" -> "m"
      [] c = "N" -> "n"
      [] c = "T" -> "t"
      [] c = "W" -> "w"
      [] OTHER -> c

LowerStr(s) == [i \in 1..Len(s) |-> Lower(s[i])]

StrsOfLen(n) == [1..n -> Chars]

Strs(lo, hi) == UNION {StrsOfLen(n) : n \in lo..hi}

\* Python's `x in y` on strings.
IsSubstring(x, y) ==
    \E i \in 0..(Len(y) - Len(x)) :
        \A k \in 1..Len(x) : y[i + k] = x[k]

(***************************************************************************)
(* difflib.SequenceMatcher(None, a, b).ratio() without junk (isjunk is     *)
(* None and autojunk only applies to sequences of 200 or more elements).   *)
(* Indices are 1-based, the upper ends ahi/bhi are exclusive.              *)
(***************************************************************************)
RECURSIVE MatchLen(_, _, _, _, _, _)
MatchLen(a, b, i, j, ahi, bhi) ==
    IF i < ahi /\ j < bhi /\ a[i] = b[j]
    THEN 1 + MatchLen(a, b, i + 1, j + 1, ahi, bhi)
    ELSE 0

\* find_longest_match: the longest block, earliest in a, then earliest in b.
FindLongestMatch(a, b, alo, ahi, blo, bhi) ==
    LET cands == {<<i, j, MatchLen(a, b, i, j, ahi, bhi)>> :
                      i \in alo..(ahi - 1), j \in blo..(bhi - 1)}
        hits  == {c \in cands : c[3] > 0}
        top   == {c \in hits : \A d \in hits : d[3] <= c[3]}
    IN  IF hits = {} THEN <<alo, blo, 0>>
        ELSE CHOOSE c \in top :
                \A d \in top : c[1] < d[1] \/ (c[1] = d[1] /\ c[2] <= d[2])

\* Sum of the sizes of get_matching_blocks().
RECURSIVE MatchingTotal(_, _, _, _, _, _)
MatchingTotal(a, b, alo, ahi, blo, bhi) ==
    LET m == FindLongestMatch(a, b, alo, ahi, blo, bhi)
    IN  IF m[3] = 0 THEN 0
        ELSE MatchingTotal(a, b, alo, m[1], blo, m[2])
             + m[3]
             + MatchingTotal(a, b, m[1] + m[3], ahi, m[2] + m[3], bhi)

Matches(a, b) == MatchingTotal(a, b, 1, Len(a) + 1, 1, Len(b) + 1)

(***************************************************************************)
(* Scores are exact rationals num/den with den = len(reason) + len(name)   *)
(* (ratio() * 100 = 200 * M / den); the reason is never empty here, so     *)
(* den >= 1.                                                               *)
(***************************************************************************)
NameBonus == 50
DescBonus == 30
Percent == 100
SeqThreshold == 60
MinScore == 40
ConfidentScore == 80

\* A scoring that leaves out the bonus for a name that contains the reason.
ScoreOf_NoNameBonus(reason, item) ==
    LET reason_lower == LowerStr(reason)
        name  == LowerStr(item.name)
        desc  == LowerStr(item.description)
        den   == Len(reason_lower) + Len(name)
        seqn  == 2 * Percent * Matches(reason_lower, name)
        base  == IF IsSubstring(reason_lower, desc) THEN DescBonus ELSE 0
    IN  [num |-> base * den + (IF seqn > SeqThreshold * den THEN seqn ELSE 0),
         den |-> den]

ScoreOf(reason, item) ==
    LET reason_lower == LowerStr(reason)
        name  == LowerStr(item.name)
        desc  == LowerStr(item.description)
        den   == Len(reason_lower) + Len(name)
        seqn  == 2 * Percent * Matches(reason_lower, name)   \* seq_score * den
        base  == (IF IsSubstring(reason_lower, name) THEN NameBonus ELSE 0)
                 + (IF IsSubstring(reason_lower, desc) THEN DescBonus ELSE 0)
    IN  [num |-> base * den + (IF seqn > SeqThreshold * den THEN seqn ELSE 0),
         den |-> den]

ScoreGT(s, n) == s.num > n * s.den          \* score > n
ScoreGE(s, n) == s.num >= n * s.den         \* score >= n
ScoreLess(s, t) == s.num * t.den < t.num * s.den
ScoreEq(s, t) == s.num * t.den = t.num * s.den

\* The loop over rate_card: the entries with score > 40, in card order.
RECURSIVE Candidates(_, _)
Candidates(reason, card) ==
    IF card = <<>> THEN <<>>
    ELSE LET s == ScoreOf(reason, Head(card))
             rest == Candidates(reason, Tail(card))
         IN  IF ScoreGT(s, MinScore)
             THEN <<[score |-> s, item |-> Head(card)]>> \o rest
             ELSE rest

\* matches.sort(key=score, reverse=True): stable, ties keep the card order.
RECURSIVE InsertDesc(_, _)
InsertDesc(m, sorted) ==
    IF sorted = <<>> THEN <<m>>
    ELSE IF ~ScoreLess(m.score, Head(sorted).score)
         THEN <<m>> \o sorted
         ELSE <<Head(sorted)>> \o InsertDesc(m, Tail(sorted))

RECURSIVE SortDesc(_)
SortDesc(ms) ==
    IF ms = <<>> THEN <<>>
    ELSE InsertDesc(Head(ms), SortDesc(Tail(ms)))

RankMatches(reason, card) == SortDesc(Candidates(reason, card))

(***************************************************************************)
(* The rate-card specification: Init draws a card and a reason, Rank       *)
(* applies the scoring loop and the sort of _handle_points_action.         *)
(***************************************************************************)
PointValues == {10}
CardSizes == {0, 1, 2}
Descriptions == {<<>>, <<"a">>}

RateCardEntries ==
    [name : Strs(1, MaxNameLen),
     description : Descriptions,
     points : PointValues]

RateCards == UNION {[1..n -> RateCardEntries] : n \in CardSizes}

Reasons == Strs(1, MaxNameLen)

(***************************************************************************)
(* RooAgent.  A message text is a sequence of whitespace-separated tokens: *)
(* words and user mentions.  "Points" is a capitalised form of "points".   *)
(***************************************************************************)
BotMention == "<@BOT>"
UserMention == "<@U2>"
Mentions == {BotMention, UserMention}
Words == {"points", "Points", "earn", "rewards", "coworking", "book",
          "today", "cancel", "hello"}
Tokens == Words \cup Mentions

MaxTextLen == 3

Texts == UNION {[1..n -> Tokens] : n \in 0..MaxTextLen}

LowerWord(w) == IF w = "Points" THEN "points" ELSE w

\* str.lower() of the joined text.
LowerText(text) == [i \in 1..Len(text) |-> LowerWord(text[i])]

RECURSIVE RemoveFirstMention(_)
RemoveFirstMention(text) ==
    IF text = <<>> THEN <<>>
    ELSE IF Head(text) \in Mentions THEN Tail(text)
         ELSE <<Head(text)>> \o RemoveFirstMention(Tail(text))

\* _clean_mention: drop every mention of the bot (or, when the bot id cannot
\* be resolved, the first mention of anybody), then ' '.join(text.split()).
_clean_mention(text, bot_id_ok) ==
    IF bot_id_ok
    THEN SelectSeq(text, LAMBDA t : t # BotMention)
    ELSE RemoveFirstMention(text)

\* The ordered regex table of _try_fast_path, each alternative a word list
\* (after cleaning, \s+ separates exactly two tokens).
FastPathTable ==
    << [action |-> "balance",
        alts |-> {<<"points">>, <<"balance">>, <<"my", "points">>}],
       [action |-> "list_tasks",
        alts |-> {<<"points", "earn">>, <<"earn", "points">>, <<"tasks">>,
                  <<"ways", "to", "earn">>}],
       [action |-> "list_rewards",
        alts |-> {<<"points", "rewards">>, <<"rewards">>}],
       [action |-> "book_coworking",
        alts |-> {<<"coworking", "book", "today">>}],
       [action |-> "cancel_coworking",
        alts |-> {<<"coworking", "cancel">>}] >>

RECURSIVE FirstPattern(_, _)
FirstPattern(text_lower, k) ==
    IF k > Len(FastPathTable) THEN None
    ELSE IF text_lower \in FastPathTable[k].alts THEN FastPathTable[k].action
         ELSE FirstPattern(text_lower, k + 1)

\* The action _try_fast_path dispatches to, or None when no regex matches.
FastPathAction(clean_text) == FirstPattern(LowerText(clean_text), 1)

\* The backend method _execute_fast_points calls for an action.
FastBackendCall(action) ==
    CASE action = "balance" -> "get_balance"
      [] action = "list_tasks" -> "list_tasks"
      [] action = "list_rewards" -> "list_rewards"
      [] action = "book_coworking" -> "book_coworking"
      [] action = "cancel_coworking" -> "cancel_coworking"

FastOutcomes == {"ok", "client_raises", "call_raises", "bad_data"}

HasPointsSkill(reg) == \E i \in DOMAIN reg : reg[i].name = "mlai-points"

PointsSkill(reg) ==
    reg[CHOOSE i \in DOMAIN reg :
            /\ reg[i].name = "mlai-points"
            /\ \A j \in 1..(i - 1) : reg[j].name # "mlai-points"]

FastError == [message |-> "fast_error_apology",
              skill_used |-> "mlai-points (fast-error)",
              data |-> "error"]

\* An _execute_fast_points without its try/except: the exception leaves it.
_execute_fast_points_uncaught(reg, action, outcome) ==
    IF ~HasPointsSkill(reg) THEN [result |-> NoResult, calls |-> <<>>]
    ELSE IF ~PointsSkill(reg).has_client
         THEN [result |-> NoResult, calls |-> <<>>]
    ELSE IF outcome = "client_raises"
         THEN [result |-> Raised, calls |-> <<"raise">>]
    ELSE IF outcome \in {"call_raises", "bad_data"}
         THEN [result |-> Raised,
               calls |-> <<FastBackendCall(action), "raise">>]
    ELSE [result |-> [message |-> action,
                      skill_used |-> "mlai-points (fast)",
                      data |-> action],
          calls |-> <<FastBackendCall(action)>>]

\* _execute_fast_points: [result, calls]; the result is None when the skill
\* or its client class is missing; every exception of the try block (client
\* construction, backend call, formatting of the answer) is caught.
_execute_fast_points(reg, action, outcome) ==
    IF ~HasPointsSkill(reg) THEN [result |-> NoResult, calls |-> <<>>]
    ELSE IF ~PointsSkill(reg).has_client
         THEN [result |-> NoResult, calls |-> <<>>]
    ELSE IF outcome = "client_raises"
         THEN [result |-> FastError, calls |-> <<"raise">>]
    ELSE IF outcome \in {"call_raises", "bad_data"}
         THEN [result |-> FastError,
               calls |-> <<FastBackendCall(action), "raise">>]
    ELSE [result |-> [message |-> action,
                      skill_used |-> "mlai-points (fast)",
                      data |-> action],
          calls |-> <<FastBackendCall(action)>>]

\* _try_fast_path
_try_fast_path(reg, clean_text, outcome) ==
    IF FastPathAction(clean_text) = None
    THEN [result |-> NoResult, calls |-> <<>>]
    ELSE _execute_fast_points(reg, FastPathAction(clean_text), outcome)

\* `keyword.lower() in text_lower` for the single-word keywords used here.
KeywordIn(keyword, text_lower) ==
    \E i \in DOMAIN text_lower : text_lower[i] = LowerWord(keyword)

\* skill_name.strip().lower().replace("_", "-") of a model answer.
NormalizeSkillName(n) ==
    CASE n \in {"mlai_points", "MLAI-Points", "mlai-points"} -> "mlai-points"
      [] n \in {"connect_users", "connect-users"} -> "connect-users"
      [] OTHER -> n

LlmAnswers == {"mlai_points", "MLAI-Points", "connect-users", "none",
               "gibberish", "raise"}

\* A selector that returns the last skill with a keyword in the text.
_select_skill_LastHit(reg, clean_text, answer) ==
    LET text_lower == LowerText(clean_text)
        hits == {i \in DOMAIN reg :
                    \E kw \in reg[i].trigger_keywords : KeywordIn(kw, text_lower)}
        named == {i \in DOMAIN reg :
                    NormalizeSkillName(reg[i].name) = NormalizeSkillName(answer)}
        first(S) == CHOOSE i \in S : \A j \in S : i <= j
        last(S) == CHOOSE i \in S : \A j \in S : i >= j
    IN  IF reg = <<>> THEN [skill |-> 0, calls |-> <<"_select_skill">>]
        ELSE IF hits # {}
             THEN [skill |-> last(hits), calls |-> <<"_select_skill">>]
        ELSE IF answer = "raise" \/ named = {}
             THEN [skill |-> 0, calls |-> <<"_select_skill", "chat">>]
        ELSE [skill |-> first(named), calls |-> <<"_select_skill", "chat">>]

\* A selector that falls back to the first registry skill when the model
\* call fails or names no skill.
_select_skill_FirstOnUnknown(reg, clean_text, answer) ==
    LET text_lower == LowerText(clean_text)
        hits == {i \in DOMAIN reg :
                    \E kw \in reg[i].trigger_keywords : KeywordIn(kw, text_lower)}
        first(S) == CHOOSE i \in S : \A j \in S : i <= j
    IN  IF reg = <<>> THEN [skill |-> 0, calls |-> <<"_select_skill">>]
        ELSE IF hits # {}
             THEN [skill |-> first(hits), calls |-> <<"_select_skill">>]
        ELSE [skill |-> 1, calls |-> <<"_select_skill", "chat">>]

\* _select_skill: [skill, calls]; skill is an index into the registry, 0 for
\* None.
_select_skill(reg, clean_text, answer) ==
    LET text_lower == LowerText(clean_text)
        hits == {i \in DOMAIN reg :
                    \E kw \in reg[i].trigger_keywords : KeywordIn(kw, text_lower)}
        named == {i \in DOMAIN reg :
                    NormalizeSkillName(reg[i].name) = NormalizeSkillName(answer)}
        first(S) == CHOOSE i \in S : \A j \in S : i <= j
    IN  IF reg = <<>> THEN [skill |-> 0, calls |-> <<"_select_skill">>]
        ELSE IF hits # {}
             THEN [skill |-> first(hits), calls |-> <<"_select_skill">>]
        ELSE IF answer = "raise" \/ named = {}
             THEN [skill |-> 0, calls |-> <<"_select_skill", "chat">>]
        ELSE [skill |-> first(named), calls |-> <<"_select_skill", "chat">>]

ExecOutcomes == {"ok", "raises"}

\* _extract_parameters: {} without a Parameters section; otherwise the chat
\* call, outside the try, then json.loads with JSONDecodeError caught.  The
\* model call answers a JSON object ("map"), answers text json.loads
\* rejects ("unparsable"), or raises.
_extract_parameters(skill, extraction) ==
    IF ~skill.has_parameters
    THEN [params |-> "{}", raised |-> FALSE, calls |-> <<"_extract_parameters">>]
    ELSE CASE extraction = "raises" ->
                [params |-> None, raised |-> TRUE,
                 calls |-> <<"_extract_parameters", "chat", "chat_raises">>]
           [] extraction = "unparsable" ->
                [params |-> "{}", raised |-> FALSE,
                 calls |-> <<"_extract_parameters", "chat", "JSONDecodeError">>]
           [] OTHER ->
                [params |-> "params", raised |-> FALSE,
                 calls |-> <<"_extract_parameters", "chat">>]

\* SkillExecutor.execute: extraction and the skill's handler inside one
\* try; any exception gives the failure SkillResult (data stays None).
execute(skill, extraction, exec) ==
    LET ext == _extract_parameters(skill, extraction)
    IN  IF ext.raised
        THEN [message |-> "skill_failure", data |-> None,
              calls |-> <<"execute">> \o ext.calls]
        ELSE IF exec = "raises"
        THEN [message |-> "skill_failure", data |-> None,
              calls |-> <<"execute">> \o ext.calls \o <<"handler", "handler_raises">>]
        ELSE [message |-> "skill_message", data |-> ext.params,
              calls |-> <<"execute">> \o ext.calls \o <<"handler">>]
GeneralOutcomes == {"ok", "raises"}

Registries ==
    LET points(c) == [name |-> "mlai-points", has_client |-> c,
                      has_parameters |-> TRUE,
                      trigger_keywords |-> {"coworking", "rewards"}]
        connect == [name |-> "connect-users", has_client |-> FALSE,
                    has_parameters |-> FALSE,
                    trigger_keywords |-> {"hello", "Points"}]
    IN  { <<>>, <<connect>>, <<points(TRUE), connect>>,
          <<points(FALSE), connect>> }

NoRequest == [text |-> <<>>, user_id |-> None, bot_id_ok |-> TRUE]

AgentInit ==
    /\ skills \in Registries
    /\ agent_pc = "idle"
    /\ agent_req = NoRequest
    /\ agent_skill = 0
    /\ agent_result = NoResult
    /\ agent_calls = <<>>
    /\ agent_bookings = <<>>
    /\ agent_answer = None

AgentParked ==
    /\ skills = <<>>
    /\ agent_pc = "parked"
    /\ agent_req = NoRequest
    /\ agent_skill = 0
    /\ agent_result = NoResult
    /\ agent_calls = <<>>
    /\ agent_bookings = <<>>
    /\ agent_answer = None

AgentUsers == {"U1"}

\* Calendar days: HostToday is date.today() of the host at the time of the
\* request; the date in settings.TIMEZONE at that moment is day1 or day2.
HostToday == "day1"

\* The book_coworking request of the fast path and what the reply says of
\* its answer: `today = date.today().isoformat()`, and "Cost: <points_cost>"
\* when the call returned (echoed 0 stands for the error reply).
BookingRequest(user_id, zone_today, outcome, cost) ==
    [user_id |-> user_id, date |-> HostToday, zone_today |-> zone_today,
     points_cost |-> cost, echoed |-> IF outcome = "ok" THEN cost ELSE 0]

CleanText == _clean_mention(agent_req.text, agent_req.bot_id_ok)

\* A mention arrives: handle_mention(text, user_id) is called.
Receive ==
    /\ agent_pc = "idle"
    /\ \E text \in Texts, user_id \in AgentUsers, bot_id_ok \in BOOLEAN :
          agent_req' = [text |-> text, user_id |-> user_id,
                        bot_id_ok |-> bot_id_ok]
    /\ agent_pc' = "fast_path"
    /\ agent_skill' = 0
    /\ agent_result' = NoResult
    /\ agent_calls' = <<>>
    /\ agent_bookings' = <<>>
    /\ agent_answer' = None
    /\ UNCHANGED skills
    /\ UNCHANGED <<rateVars, questVars, pointsVars, jobVars>>

\* handle_mention, step 1: `fast_result = await self._try_fast_path(...)`.
TryFastPath ==
    /\ agent_pc = "fast_path"
    /\ \E outcome \in FastOutcomes,
          zone_today \in IF FastPathAction(CleanText) = "book_coworking"
                         THEN {"day1", "day2"} ELSE {"day1"},
          cost \in IF FastPathAction(CleanText) = "book_coworking"
                   THEN {1, 2} ELSE {1} :
          LET fast == _try_fast_path(skills, CleanText, outcome)
              books == \E i \in DOMAIN fast.calls : fast.calls[i] = "book_coworking"
          IN  /\ agent_calls' = agent_calls \o fast.calls
              /\ agent_bookings' =
                    IF books
                    THEN Append(agent_bookings,
                                BookingRequest(agent_req.user_id, zone_today, outcome, cost))
                    ELSE agent_bookings
              /\ IF fast.result # NoResult
                 THEN agent_result' = fast.result /\ agent_pc' = "returned"
                 ELSE agent_result' = agent_result /\ agent_pc' = "select"
    /\ UNCHANGED <<skills, agent_req, agent_skill, agent_answer>>
    /\ UNCHANGED <<rateVars, questVars, pointsVars, jobVars>>

\* handle_mention, step 2: `skill = await self._select_skill(clean_text)`.
SelectSkill ==
    /\ agent_pc = "select"
    /\ \E answer \in LlmAnswers :
          LET sel == _select_skill(skills, CleanText, answer)
          IN  /\ agent_calls' = agent_calls \o sel.calls
              /\ agent_skill' = sel.skill
              /\ agent_answer' = IF sel.calls = <<"_select_skill", "chat">>
                                 THEN answer ELSE None
              /\ agent_pc' = IF sel.skill # 0 THEN "execute" ELSE "general"
    /\ UNCHANGED <<skills, agent_req, agent_result, agent_bookings>>
    /\ UNCHANGED <<rateVars, questVars, pointsVars, jobVars>>

\* handle_mention, `if skill:` branch.  SkillExecutor.execute catches every
\* exception and returns a failure SkillResult.
ExecuteSkill ==
    /\ agent_pc = "execute"
    /\ \E extraction \in {"map", "unparsable", "raises"}, exec \in ExecOutcomes :
          LET result == execute(skills[agent_skill], extraction, exec)
          IN  /\ agent_result' = [message |-> result.message,
                                  skill_used |-> skills[agent_skill].name,
                                  data |-> result.data]
              /\ agent_calls' = agent_calls \o result.calls
    /\ agent_pc' = "returned"
    /\ UNCHANGED <<skills, agent_req, agent_skill, agent_bookings, agent_answer>>
    /\ UNCHANGED <<rateVars, questVars, pointsVars, jobVars>>

\* handle_mention, `else:` branch: _general_response catches the failure of
\* its model call and returns a canned apology.
GeneralResponse ==
    /\ agent_pc = "general"
    /\ \E general \in GeneralOutcomes :
          agent_result' = [message |-> IF general = "ok" THEN "general_reply"
                                       ELSE "general_apology",
                           skill_used |-> None,
                           data |-> None]
    /\ agent_calls' = agent_calls \o <<"_general_response", "chat">>
    /\ agent_pc' = "returned"
    /\ UNCHANGED <<skills, agent_req, agent_skill, agent_bookings, agent_answer>>
    /\ UNCHANGED <<rateVars, questVars, pointsVars, jobVars>>

AgentNext ==
    \/ Receive
    \/ TryFastPath
    \/ SelectSkill
    \/ ExecuteSkill
    \/ GeneralResponse

(***************************************************************************)
(* Quest tracker.  QUESTS of roo/quests.py.                                *)
(***************************************************************************)
QUESTS ==
    [connector      |-> [target_count |-> 5, points |-> 5],
     helper         |-> [target_count |-> 3, points |-> 5],
     first_contact  |-> [target_count |-> 1, points |-> 2],
     paper_trail    |-> [target_count |-> 1, points |-> 5],
     git_pusher     |-> [target_count |-> 1, points |-> 5],
     model_citizen  |-> [target_count |-> 1, points |-> 5],
     code_blooded   |-> [target_count |-> 1, points |-> 2],
     show_off       |-> [target_count |-> 1, points |-> 10],
     bug_basher     |-> [target_count |-> 1, points |-> 10],
     melb_coffee    |-> [target_count |-> 1, points |-> 1],
     kangaroo_court |-> [target_count |-> 1, points |-> 1],
     warm_welcome   |-> [target_count |-> 1, points |-> 5],
     night_owl      |-> [target_count |-> 1, points |-> 10]]

QuestIds == DOMAIN QUESTS

\* Quests completed through _update_progress (all but first_contact).
CounterQuests == QuestIds \ {"first_contact"}

QuestUsers == {"U1"}
Pairs == QuestUsers \X QuestIds

MaxEvents == 3

\* Inbound events, by the fields handle_quests reads.
MelbEmojis == {"coffee", "flat_white", "espresso"}
KangarooEmojis == {"kangaroo"}

ReactionEvents ==
    [type : {"reaction_added"}, user : QuestUsers,
     reaction : {"coffee", "thumbsup"},
     channel : {"start_here", "other"}]

\* `matches`: the pattern quests whose regex finds something in the text.
MessageEvents ==
    [type : {"message"}, user : QuestUsers,
     ignored : {FALSE},                          \* bot_id or subtype set
     thread : {"none", "reply"},                 \* thread_ts: absent, # ts
     channel : {"start_here", "other"},         
     matches : {{}, {"paper_trail"}},
     night : {FALSE}]                            \* 1 <= Melbourne hour < 5
    \cup [type : {"message"}, user : QuestUsers, ignored : {TRUE},
          thread : {"none"}, channel : {"other"}, matches : {{}},
          night : {FALSE}]

IfSeq(cond, q) == IF cond THEN <<q>> ELSE <<>>

\* The quests handle_quests visits for an event, in program order.
\* "first_contact" stands for the call of _check_start_here_quest that gets
\* past its channel test.
QuestSteps(e) ==
    IF e.type = "reaction_added"
    THEN <<"connector">>
         \o IfSeq(e.reaction \in MelbEmojis, "melb_coffee")
         \o IfSeq(e.reaction \in KangarooEmojis, "kangaroo_court")
         \o IfSeq(e.channel = "start_here", "warm_welcome")
    ELSE IF e.ignored THEN <<>>
    ELSE IfSeq(e.thread = "reply", "helper")
         \o IfSeq(e.thread = "none" /\ e.channel = "start_here", "first_contact")
         \o IfSeq("paper_trail" \in e.matches, "paper_trail")
         \o IfSeq("git_pusher" \in e.matches, "git_pusher")
         \o IfSeq("model_citizen" \in e.matches, "model_citizen")
         \o IfSeq("code_blooded" \in e.matches, "code_blooded")
         \o IfSeq(e.thread = "none" /\ e.channel = "showcase", "show_off")
         \o IfSeq(e.thread = "none" /\ e.channel = "bugs", "bug_basher")
         \o IfSeq(e.night, "night_owl")

\* An _update_progress that counts on after completion (no early return).
_update_progress_NoSkip(q, user, quest) ==
    LET pair == <<user, quest>>
        current == q.progress[pair] + 1
        called == [q EXCEPT !.updates[pair] = @ + 1]
    IN  IF current >= QUESTS[quest].target_count
        THEN [q |-> [called EXCEPT !.progress[pair] = current,
                                   !.completed = @ \cup {pair}],
              complete |-> pair \notin q.completed]
        ELSE [q |-> [called EXCEPT !.progress[pair] = current],
              complete |-> FALSE]

(***************************************************************************)
(* A task runs without interruption from one await of a network call to    *)
(* the next.  q is the tracker state [progress, completed, rewards] and t  *)
(* the task [user, bot_id_ok, todo, pc, quest].                            *)
(***************************************************************************)
\* _update_progress up to its `await _complete_quest`: the new tracker state
\* and whether the quest has just been completed.
_update_progress(q, user, quest) ==
    LET pair == <<user, quest>>
        current == q.progress[pair] + 1
        called == [q EXCEPT !.updates[pair] = @ + 1]
    IN  IF pair \in q.completed
        THEN [q |-> called, complete |-> FALSE]
        ELSE IF current >= QUESTS[quest].target_count
             THEN [q |-> [called EXCEPT !.progress[pair] = current,
                                        !.completed = @ \cup {pair}],
                   complete |-> TRUE]
             ELSE [q |-> [called EXCEPT !.progress[pair] = current],
                   complete |-> FALSE]

\* _complete_quest up to its `await system_award_points`: the call is issued
\* unless the bot id cannot be resolved (logged, no reward).
_complete_quest(q, t, quest) ==
    IF t.bot_id_ok
    THEN [q |-> [q EXCEPT !.rewards[<<t.user, quest>>] = @ + 1],
          t |-> [t EXCEPT !.pc = "await_award", !.quest = quest]]
    ELSE [q |-> [q EXCEPT !.failed = @ \cup {<<t.user, quest>>}], t |-> t]

\* handle_quests from the current position to the next await.
RECURSIVE RunTask(_, _)
RunTask(q, t) ==
    IF t.todo = <<>> THEN [q |-> q, t |-> [t EXCEPT !.pc = "done"]]
    ELSE LET quest == Head(t.todo)
             rest == [t EXCEPT !.todo = Tail(t.todo)]
         IN  IF quest = "first_contact"
             THEN [q |-> q,
                   t |-> [rest EXCEPT !.pc = "await_has_posted",
                                      !.quest = quest]]
             ELSE LET u == _update_progress(q, t.user, quest)
                  IN  IF u.complete
                      THEN LET c == _complete_quest(u.q, rest, quest)
                           IN  IF c.t.pc = "await_award" THEN c
                               ELSE RunTask(c.q, c.t)
                      ELSE RunTask(u.q, rest)

Tracker == [progress |-> quest_progress, completed |-> completed_quests,
            rewards |-> reward_calls, failed |-> reward_failed,
            updates |-> quest_updates]

\* Store the result of a run; a finished task leaves quest_tasks.
SetTracker(r, i) ==
    /\ quest_progress' = r.q.progress
    /\ completed_quests' = r.q.completed
    /\ reward_calls' = r.q.rewards
    /\ reward_failed' = r.q.failed
    /\ quest_updates' = r.q.updates
    /\ quest_tasks' =
          IF r.t.pc = "done"
          THEN [k \in 1..(Len(quest_tasks) - 1) |->
                    IF k < i THEN quest_tasks[k] ELSE quest_tasks[k + 1]]
          ELSE [quest_tasks EXCEPT ![i] = r.t]

QuestInit ==
    /\ quest_progress = [p \in Pairs |-> 0]
    /\ completed_quests = {}
    /\ first_posts = {}
    /\ reward_calls = [p \in Pairs |-> 0]
    /\ reward_failed = {}
    /\ quest_updates = [p \in Pairs |-> 0]
    /\ quest_tasks = <<>>
    /\ quest_events = 0

QuestParked == QuestInit

\* An event is handed to handle_quests; the task runs to its first await.
Deliver ==
    /\ quest_events < MaxEvents
    /\ \E e \in ReactionEvents \cup MessageEvents, bot_id_ok \in BOOLEAN :
          LET t == [user |-> e.user, bot_id_ok |-> bot_id_ok,
                    todo |-> QuestSteps(e), pc |-> "run", quest |-> None]
              r == RunTask(Tracker, t)
          IN  /\ quest_progress' = r.q.progress
              /\ completed_quests' = r.q.completed
              /\ reward_calls' = r.q.rewards
              /\ reward_failed' = r.q.failed
              /\ quest_updates' = r.q.updates
              /\ quest_tasks' = IF r.t.pc = "done" THEN quest_tasks
                                ELSE Append(quest_tasks, r.t)
    /\ quest_events' = quest_events + 1
    /\ UNCHANGED first_posts
    /\ UNCHANGED <<rateVars, agentVars, pointsVars, jobVars>>

\* system_award_points returns or raises; _complete_quest sends the DM or
\* logs the failure, and handle_quests goes on.
AwardReturns ==
    \E i \in DOMAIN quest_tasks :
        /\ quest_tasks[i].pc = "await_award"
        /\ \E ok \in BOOLEAN :
              LET t == quest_tasks[i]
                  q == IF ok THEN Tracker
                       ELSE [Tracker EXCEPT !.failed = @ \cup {<<t.user, t.quest>>}]
              IN  SetTracker(RunTask(q, t), i)
        /\ UNCHANGED <<first_posts, quest_events>>
        /\ UNCHANGED <<rateVars, agentVars, pointsVars, jobVars>>

\* has_posted_in_channel returns: the backend's answer, or False when the
\* request failed (the method swallows every exception).
HasPostedReturns ==
    \E i \in DOMAIN quest_tasks :
        LET t == quest_tasks[i] IN
        /\ t.pc = "await_has_posted"
        /\ \E ok \in BOOLEAN :
              LET has_posted == ok /\ <<t.user, "start_here">> \in first_posts
              IN  IF has_posted
                  THEN SetTracker(RunTask(Tracker, t), i)
                  ELSE SetTracker([q |-> Tracker,
                                   t |-> [t EXCEPT !.pc = "await_record"]], i)
        /\ UNCHANGED <<first_posts, quest_events>>
        /\ UNCHANGED <<rateVars, agentVars, pointsVars, jobVars>>

\* record_channel_post returns (201, or 409 when already recorded) or raises;
\* on success _complete_quest(user, "first_contact") follows.
RecordReturns ==
    \E i \in DOMAIN quest_tasks :
        LET t == quest_tasks[i] IN
        /\ t.pc = "await_record"
        /\ \E ok \in BOOLEAN :
              IF ok
              THEN /\ first_posts' = first_posts \cup {<<t.user, "start_here">>}
                   /\ LET c == _complete_quest(Tracker, t, "first_contact")
                      IN  IF c.t.pc = "await_award" THEN SetTracker(c, i)
                          ELSE SetTracker(RunTask(c.q, c.t), i)
              ELSE /\ first_posts' = first_posts
                   /\ SetTracker(RunTask(Tracker, t), i)
        /\ UNCHANGED quest_events
        /\ UNCHANGED <<rateVars, agentVars, pointsVars, jobVars>>

QuestNext ==
    \/ Deliver
    \/ AwardReturns
    \/ HasPostedReturns
    \/ RecordReturns

(***************************************************************************)
(* Points dispatcher: SkillExecutor._execute_mlai_points and               *)
(* _handle_points_action, with the admin operations of PointsClient.       *)
(*                                                                         *)
(* A user reference is [form, id]: "U2" (bare), "<@U2>" (angle), "@U2"     *)
(* (at), "<@U2|bob>" (label) or "U2|bob" (pipe).  A message text is a      *)
(* sequence of tokens: words, numbers (with or without a following         *)
(* "points"/"pts") and user references.                                    *)
(***************************************************************************)
Word(w) == [t |-> "word", w |-> w, v |-> 0, unit |-> FALSE, form |-> None, id |-> None]
Num(v, unit) == [t |-> "num", w |-> None, v |-> v, unit |-> unit, form |-> None, id |-> None]
Ref(form, id) == [t |-> "ref", w |-> None, v |-> 0, unit |-> FALSE, form |-> form, id |-> id]

UserRef(form, id) == [form |-> form, id |-> id]
NoRef == UserRef(None, None)          \* no user given
NoReason == <<None>>                  \* the key "reason" is absent

BotId == "UB0T"

IdChars(id) ==
    CASE id = "U1" -> <<"U", "1">>
      [] id = "U2" -> <<"U", "2">>
      [] id = "U12" -> <<"U", "1", "2">>
      [] id = BotId -> <<"U", "B", "0", "T">>
      [] OTHER -> <<>>

Digits == {"0", "1", "2", "3", "4", "5", "6", "7", "8", "9"}

DigitVal(c) == CHOOSE n \in 0..9 : <<"0", "1", "2", "3", "4", "5", "6", "7", "8", "9">>[n + 1] = c

\* re.findall(r'<@([A-Z0-9]+)>', text): only the plain angle form matches.
RECURSIVE all_mentions(_)
all_mentions(text) ==
    IF text = <<>> THEN <<>>
    ELSE IF Head(text).t = "ref" /\ Head(text).form = "angle"
         THEN <<UserRef("bare", Head(text).id)>> \o all_mentions(Tail(text))
         ELSE all_mentions(Tail(text))

\* re.sub(r'[<@>]', '', str(tu))
StripBrackets(ref) ==
    CASE ref.form \in {"bare", "angle", "at"} -> UserRef("bare", ref.id)
      [] ref.form \in {"label", "pipe"} -> UserRef("pipe", ref.id)

\* PointsClient._clean_slack_id
_clean_slack_id(ref) ==
    CASE ref.form \in {"angle", "label", "at"} -> UserRef("bare", ref.id)
      [] OTHER -> ref

\* The digits of the run that starts at position i of cs.
RECURSIVE DigitRun(_, _, _)
DigitRun(cs, i, acc) ==
    IF i <= Len(cs) /\ cs[i] \in Digits
    THEN DigitRun(cs, i + 1, 10 * acc + DigitVal(cs[i]))
    ELSE acc

\* The first match of (?<![a-zA-Z])([+-]?\d+) inside a user id: the first
\* digit that does not follow a letter (in every form the id follows "@" or
\* a space, so a leading digit would match too).
IdNumber(id) ==
    LET cs == IdChars(id)
        starts == {i \in DOMAIN cs :
                      /\ cs[i] \in Digits
                      /\ (i = 1 \/ cs[i - 1] \in Digits)}
    IN  IF starts = {} THEN [found |-> FALSE, val |-> 0]
        ELSE [found |-> TRUE,
              val |-> DigitRun(cs, CHOOSE i \in starts : \A j \in starts : i <= j, 0)]

MaxBareNumber == 1000

\* pts_match = re.search(r'(?<![a-zA-Z])([+-]?\d+)\s*(?:points?|pts?)?', text)
\* and the test on it: 0 when the first match is not taken or none exists.
RECURSIVE TextPoints(_)
TextPoints(text) ==
    IF text = <<>> THEN 0
    ELSE LET tok == Head(text)
             abs(n) == IF n < 0 THEN -n ELSE n
         IN  IF tok.t = "num"
             THEN IF tok.unit \/ abs(tok.v) < MaxBareNumber THEN tok.v ELSE 0
             ELSE IF tok.t = "ref" /\ IdNumber(tok.id).found
                  THEN IF abs(IdNumber(tok.id).val) < MaxBareNumber
                       THEN IdNumber(tok.id).val ELSE 0
             ELSE TextPoints(Tail(text))

\* `key in text_lower` for a one-word key: a word of the text contains it.
\* The pairs list the proper containments among the words used here.
WordHas(w, key) ==
    \/ w = key
    \/ <<w, key>> \in {<<"rewards", "reward">>, <<"rewards", "award">>,
                       <<"reward", "award">>, <<"tasks", "task">>,
                       <<"points", "point">>}

TextHas(text, key) ==
    \E i \in DOMAIN text :
        \/ text[i].t = "word" /\ WordHas(text[i].w, key)
        \/ text[i].t = "num" /\ text[i].unit /\ key \in {"point", "points"}

\* `phrase in text_lower` for a key of several words: the words in a row.
PhraseIn(text, phrase) ==
    \E i \in 0..(Len(text) - Len(phrase)) :
        \A k \in DOMAIN phrase :
            text[i + k].t = "word" /\ text[i + k].w = phrase[k]

\* A resolution that consults the text only without an extracted action.
ResolveAction_TaskIsFinal(params, text) ==
    LET a0 == params.action
        a1 == IF a0 = "book" THEN "book_coworking"
              ELSE IF a0 \in {"create", "task", "create_task"}
                      /\ (params.task_title # None \/ TextHas(text, "create"))
                   THEN "create_task"
              ELSE a0
        has(k) == TextHas(text, k)
        says(p) == PhraseIn(text, p)
    IN  IF a1 # "" THEN a1
        ELSE CASE has("balance") \/ says(<<"how", "many", "points">>)
                  \/ says(<<"my", "points">>) -> "balance"
               [] has("history") -> "history"
               [] has("tasks") -> "list_tasks"
               [] has("claim") -> "claim_task"
               [] has("submit") -> "submit_task"
               [] says(<<"coworking", "check">>) \/ says(<<"check", "coworking">>)
                  \/ has("availability") -> "check_coworking"
               [] says(<<"coworking", "book">>) \/ says(<<"book", "coworking">>)
                  \/ says(<<"book", "me">>) -> "book_coworking"
               [] has("cancel") /\ has("coworking") -> "cancel_coworking"
               [] says(<<"rate", "card">>) \/ says(<<"point", "values">>)
                  \/ says(<<"how", "much", "is">>) -> "view_rate_card"
               [] has("rewards") \/ has("perks") -> "list_rewards"
               [] has("reward") /\ has("request") -> "request_reward"
               [] has("task") /\ has("create") -> "create_task"
               [] has("approve") -> "approve_task"
               [] has("reject") -> "reject_task"
               [] has("award") \/ says(<<"give", "points">>) \/ has("reward")
                    -> "award_points"
               [] has("deduct") \/ says(<<"remove", "points">>) -> "deduct_points"
               [] OTHER -> a1

\* The action of _execute_mlai_points: alias handling, then the text rules.
ResolveAction(params, text) ==
    LET a0 == params.action
        a1 == IF a0 = "book" THEN "book_coworking"
              ELSE IF a0 \in {"create", "task", "create_task"}
                      /\ (params.task_title # None \/ TextHas(text, "create"))
                   THEN "create_task"
              ELSE a0
        has(k) == TextHas(text, k)
        says(p) == PhraseIn(text, p)
    IN  IF ~(a1 = "" \/ a1 = "task") THEN a1
        ELSE CASE has("balance") \/ says(<<"how", "many", "points">>)
                  \/ says(<<"my", "points">>) -> "balance"
               [] has("history") -> "history"
               [] has("tasks") -> "list_tasks"
               [] has("claim") -> "claim_task"
               [] has("submit") -> "submit_task"
               [] says(<<"coworking", "check">>) \/ says(<<"check", "coworking">>)
                  \/ has("availability") -> "check_coworking"
               [] says(<<"coworking", "book">>) \/ says(<<"book", "coworking">>)
                  \/ says(<<"book", "me">>) -> "book_coworking"
               [] has("cancel") /\ has("coworking") -> "cancel_coworking"
               [] says(<<"rate", "card">>) \/ says(<<"point", "values">>)
                  \/ says(<<"how", "much", "is">>) -> "view_rate_card"
               [] has("rewards") \/ has("perks") -> "list_rewards"
               [] has("reward") /\ has("request") -> "request_reward"
               [] has("task") /\ has("create") -> "create_task"
               [] has("approve") -> "approve_task"
               [] has("reject") -> "reject_task"
               [] has("award") \/ says(<<"give", "points">>) \/ has("reward")
                    -> "award_points"
               [] has("deduct") \/ says(<<"remove", "points">>) -> "deduct_points"
               [] OTHER -> a1

InvalidWords == {"for", "to", "reason", "because", "points", "award", "give", "and"}

\* target_slack_ids of the award branch: the mentions of the text without
\* the bot; else the target of the parameters; stop words are dropped.
TargetIds(params, text, bot_id) ==
    LET mentioned == SelectSeq(all_mentions(text), LAMBDA u : u.id # bot_id)
        cleaned == IF params.target_user = NoRef THEN <<>>
                   ELSE LET c == StripBrackets(params.target_user)
                        IN  IF c = UserRef("bare", bot_id) THEN <<>> ELSE <<c>>
        ids == IF mentioned # <<>> THEN mentioned ELSE cleaned
    IN  SelectSeq(ids, LAMBDA u : ~(u.form = "bare" /\ u.id \in InvalidWords))

\* The amount the award branch works with before the rate card is tried.
AwardPoints(params, text) ==
    IF params.points # 0 THEN params.points ELSE TextPoints(text)

NewsletterReason == <<"n", "e", "w", "s", "l", "e", "t", "t", "e", "r">>
TalkReason == <<"t", "a", "l", "k">>
DefaultReason == <<"M", "a", "n", "u", "a", "l", " ", "a", "d", "j", "u", "s",
                   "t", "m", "e", "n", "t">>

\* reason = params.get("reason", "Manual adjustment")
ReasonOf(params) == IF params.reason = NoReason THEN DefaultReason ELSE params.reason

(***************************************************************************)
(* The points backend and the requests in flight.                          *)
(***************************************************************************)
Admins == {"U1"}
WeeklyAllowance == 10
InitialUsed == {3, 7, 10}
Reqs == {"r1", "r2"}
PointsUsers == {"U1", "U2"}

Newsletter == [name |-> <<"W", "e", "e", "k", "l", "y", " ", "N", "e", "w", "s",
                          "l", "e", "t", "t", "e", "r">>,
               description |-> <<>>, points |-> 10]
MeetupTalk == [name |-> <<"M", "e", "e", "t", "u", "p", " ", "T", "a", "l", "k">>,
               description |-> <<>>, points |-> 50]
LightningTalk == [name |-> <<"L", "i", "g", "h", "t", "n", "i", "n", "g", " ",
                             "T", "a", "l", "k">>,
                  description |-> <<>>, points |-> 20]
PointsCards == {<<>>, <<Newsletter, MeetupTalk>>, <<MeetupTalk, LightningTalk>>}

PointsParams ==
    [action : {"", "award_points", "deduct_points", "approve_task", "create_task"},
     points : {0, 5, -5},
     reason : {NoReason, <<>>, NewsletterReason, TalkReason},
     target_user : {NoRef, UserRef("bare", "U2"), UserRef("angle", "U1")},
     task_id : {0, 7},
     task_title : {None, "Fix docs"}]

NoParams ==
    [action |-> "", points |-> 0, reason |-> NoReason, target_user |-> NoRef,
     task_id |-> 0, task_title |-> None]

PointsTexts ==
    { <<Word("award"), Ref("angle", "U2"), Num(5, TRUE)>>,
      <<Word("award"), Ref("angle", "U2")>>,
      <<Word("award"), Ref("angle", "U12")>>,
      <<Ref("angle", BotId), Word("award"), Ref("label", "U2")>>,
      <<Word("award"), Ref("angle", "U1"), Num(5, TRUE)>>,
      <<Word("award"), Ref("angle", "U2"), Ref("angle", "U12"), Num(5, TRUE)>>,
      <<Word("award"), Ref("angle", "U2"), Num(-5, TRUE)>>,
      <<Word("award"), Num(5, FALSE)>>,
      <<Word("deduct"), Ref("angle", "U2"), Num(5, TRUE)>>,
      <<Word("approve"), Word("task"), Num(7, FALSE)>>,
      <<Word("reject"), Word("task"), Num(7, FALSE)>>,
      <<Word("hello")>> }

NoReply == [kind |-> None, points |-> 0, name |-> <<>>, other |-> <<>>, remaining |-> 0,
            allowance |-> 0]
Reply(kind) == [NoReply EXCEPT !.kind = kind]

IdleRequest ==
    [pc |-> "idle", user_id |-> None, params |-> NoParams, text |-> <<>>,
     action |-> None, targets |-> <<>>, points |-> 0, reason |-> <<>>, idx |-> 0,
     results |-> <<>>, errors |-> <<>>, statuses |-> {}, admin_cache |-> "unset",
     matches |-> <<>>, seen_remaining |-> 0, last_read |-> <<>>, calls |-> <<>>,
     reply |-> NoReply]

Call(q, name) == [q EXCEPT !.calls = Append(@, name)]
Return(q, reply) == [q EXCEPT !.pc = "done", !.reply = reply]

\* re.search(r'(?:task|#)\s*(\d+)', text): the number after the word "task".
TextTaskId(text) ==
    LET hits == {i \in DOMAIN text :
                    /\ i > 1 /\ text[i].t = "num" /\ text[i].v >= 0
                    /\ text[i - 1].t = "word" /\ WordHas(text[i - 1].w, "task")}
    IN  IF hits = {} THEN 0 ELSE text[CHOOSE i \in hits : \A j \in hits : i <= j].v

TaskIdOf(q) == IF q.params.task_id # 0 THEN q.params.task_id ELSE TextTaskId(q.text)

MutatingCall(r, q, op, target) ==
    [req |-> r, op |-> op, by |-> q.user_id, target |-> target, points |-> q.points,
     idx |-> q.idx, read |-> q.last_read, admin_ok |-> (q.admin_cache = "yes")]

MemberActions ==
    {"balance", "history", "list_tasks", "claim_task", "submit_task",
     "check_coworking", "book_coworking", "cancel_coworking", "list_rewards",
     "request_reward", "view_rate_card"}

\* The response text of the award branch once the loop is over: "Awarded N
\* points to <@user>" for one result and no error, otherwise the headline
\* "Awarded N points each!" followed by a line for every result and error.
Finish(q) ==
    Return(q, [Reply(IF Len(q.results) = 1 /\ q.errors = <<>>
                     THEN "awarded_one" ELSE "awarded_each")
               EXCEPT !.points = q.points])

\* Top of the loop body for the target at q.idx: the user-linking lookup.
StartTarget(q) == [Call(q, "get_user_by_slack_id") EXCEPT !.pc = "await_link"]

NextTarget(q) ==
    IF q.idx < Len(q.targets) THEN StartTarget([q EXCEPT !.idx = @ + 1]) ELSE Finish(q)

NoResponse == [kind |-> "none", remaining |-> 0, allowance |-> 0]

\* except Exception as e: errors.append({"user": target_id, "error": str(e)})
\* `read` is what the allowance request of this attempt answered, `seen` the
\* latest allowance the request has read; `remaining` and `allowance` are
\* the numbers the error message states.
Rejected(q, kind, resp) ==
    NextTarget([q EXCEPT !.errors =
        Append(@, [user |-> q.targets[q.idx], idx |-> q.idx, error |-> kind,
                   read |-> IF resp.kind = "ok" THEN <<resp.remaining>> ELSE <<>>,
                   seen |-> q.last_read,
                   remaining |-> IF kind = "quota_partial" THEN resp.remaining ELSE 0,
                   allowance |-> IF kind \in {"quota_full", "quota_partial"}
                                 THEN resp.allowance ELSE 0])])

\* An award_points without the self-award check.
AfterAdmin_NoSelfCheck(q, admin) ==
    IF ~admin THEN Rejected(q, "not_admin", NoResponse)
    ELSE IF q.points < 0 THEN Rejected(q, "negative", NoResponse)
    ELSE [Call(q, "get_admin_allowance") EXCEPT !.pc = "await_allowance"]

\* award_points after is_admin has answered: the self-award and sign checks,
\* then the allowance request.
AfterAdmin(q, admin) ==
    LET cleaned_target == _clean_slack_id(q.targets[q.idx])
    IN  IF ~admin THEN Rejected(q, "not_admin", NoResponse)
        ELSE IF UserRef("bare", q.user_id) = cleaned_target /\ q.points > 0
             THEN Rejected(q, "self_award", NoResponse)
        ELSE IF q.points < 0 THEN Rejected(q, "negative", NoResponse)
        ELSE [Call(q, "get_admin_allowance") EXCEPT !.pc = "await_allowance"]

\* An allowance check that only refuses an exhausted allowance.
AllowanceVerdict_NoPartialCheck(points, resp) ==
    CASE resp.kind = "error" -> "allowance_error"
      [] resp.kind = "raise" -> "http_error"
      [] resp.remaining <= 0 -> "quota_full"
      [] OTHER -> "post"

\* award_points, the allowance check for a positive amount: what becomes of
\* the award once get_admin_allowance has answered.
AllowanceVerdict(points, resp) ==
    CASE resp.kind = "error" -> "allowance_error"
      [] resp.kind = "raise" -> "http_error"
      [] resp.remaining <= 0 -> "quota_full"
      [] points > resp.remaining -> "quota_partial"
      [] OTHER -> "post"

\* award_points up to its first backend call: is_admin answers from the
\* client's cache when it holds the requester.
AwardPointsCall(q) ==
    IF q.admin_cache = "unset"
    THEN [Call(q, "get_admin_details") EXCEPT !.pc = "await_is_admin"]
    ELSE AfterAdmin(q, q.admin_cache = "yes")

\* An award branch without `if points < 0`.
ResolveAward_NoSignCheck(q0, bot_id) ==
    LET q == [q0 EXCEPT !.targets = TargetIds(q0.params, q0.text, bot_id),
                        !.points = AwardPoints(q0.params, q0.text),
                        !.reason = ReasonOf(q0.params)]
    IN  IF q.targets = <<>> THEN Return(q, Reply("who"))
        ELSE IF q.points = 0
             THEN IF q.reason # <<>>
                  THEN [Call(q, "get_rate_card") EXCEPT !.pc = "await_rate_card"]
                  ELSE Return(q, Reply("how_many"))
        ELSE StartTarget([q EXCEPT !.idx = 1])

\* The award branch after the allowance pre-check let the request through;
\* bot_id is None when get_bot_user_id() raised.
ResolveAward(q0, bot_id) ==
    LET q == [q0 EXCEPT !.targets = TargetIds(q0.params, q0.text, bot_id),
                        !.points = AwardPoints(q0.params, q0.text),
                        !.reason = ReasonOf(q0.params)]
    IN  IF q.targets = <<>> THEN Return(q, Reply("who"))
        ELSE IF q.points = 0
             THEN IF q.reason # <<>>
                  THEN [Call(q, "get_rate_card") EXCEPT !.pc = "await_rate_card"]
                  ELSE Return(q, Reply("how_many"))
        ELSE IF q.points < 0 THEN Return(q, Reply("crikey"))
        ELSE StartTarget([q EXCEPT !.idx = 1])

\* What GET /admin/allowance/ can answer for user u.
AllowanceResponses(u) ==
    {[kind |-> "raise", remaining |-> 0, allowance |-> 0],
     [kind |-> "error", remaining |-> 0, allowance |-> 0]}
    \cup (IF u \in Admins
          THEN {[kind |-> "ok", remaining |-> WeeklyAllowance - backend_used,
                 allowance |-> WeeklyAllowance]}
          ELSE {})

PointsInit ==
    /\ preq = [r \in Reqs |-> IF r = "r1" THEN IdleRequest
                               ELSE [IdleRequest EXCEPT !.pc = "parked"]]
    /\ backend_used \in InitialUsed
    /\ backend_log = <<>>

PointsParked ==
    /\ preq = [r \in Reqs |-> [IdleRequest EXCEPT !.pc = "parked"]]
    /\ backend_used = 0
    /\ backend_log = <<>>

\* execute() for the points skill, from the call to its first backend
\* request: the action is resolved and its branch entered.
BeginWith(r, user, params, text) ==
    /\ preq[r].pc = "idle"
    /\  LET q == [preq[r] EXCEPT !.user_id = user, !.params = params, !.text = text,
                                 !.points = params.points,
                                 !.action = ResolveAction(params, text)]
            posted(op) == [Call(q, op) EXCEPT !.pc = "await_task_post"]
        IN  CASE q.action \in {"deduct_points", "deduct"} ->
                   /\ preq' = [preq EXCEPT ![r] = Return(q, Reply("deduct_refusal"))]
                   /\ UNCHANGED backend_log
              [] q.action \in {"approve_task", "reject_task"} ->
                   IF TaskIdOf(q) = 0
                   THEN /\ preq' = [preq EXCEPT ![r] = Return(q, Reply("which_task"))]
                        /\ UNCHANGED backend_log
                   ELSE /\ preq' = [preq EXCEPT ![r] = posted(q.action)]
                        /\ backend_log' = Append(backend_log,
                                                 MutatingCall(r, q, q.action, NoRef))
              [] q.action = "create_task" ->
                   /\ preq' = [preq EXCEPT ![r] =
                                 [Call(q, "get_admin_details") EXCEPT !.pc = "await_portfolio"]]
                   /\ UNCHANGED backend_log
              [] q.action \in {"award_points", "award"} ->
                   /\ preq' = [preq EXCEPT ![r] =
                                 [Call(q, "get_admin_allowance") EXCEPT !.pc = "await_precheck"]]
                   /\ UNCHANGED backend_log
              [] q.action \in MemberActions ->
                   /\ preq' = [preq EXCEPT ![r] = Return(Call(q, q.action), Reply("member_action"))]
                   /\ UNCHANGED backend_log
              [] OTHER ->
                   /\ preq' = [preq EXCEPT ![r] = Return(q, Reply("llm_fallback"))]
                   /\ UNCHANGED backend_log
    /\ UNCHANGED backend_used
    /\ UNCHANGED <<rateVars, agentVars, questVars, jobVars>>

\* A request arrives: any user, extracted parameters and text.
Begin(r) ==
    /\ preq[r].pc = "idle"
    /\ \E user \in PointsUsers, params \in PointsParams, text \in PointsTexts :
          BeginWith(r, user, params, text)

\* The early allowance check of the award branch answers.
PrecheckReturns(r) ==
    /\ preq[r].pc = "await_precheck"
    /\ \E resp \in AllowanceResponses(preq[r].user_id), bot_id \in {BotId, None} :
        LET q == preq[r]
        IN  preq' = [preq EXCEPT ![r] =
              CASE resp.kind = "error" -> Return(q, Reply("not_authorized"))
                [] resp.kind = "raise" -> ResolveAward(q, bot_id)
                [] OTHER ->
                     IF resp.remaining <= 0
                     THEN Return([q EXCEPT !.last_read = <<resp.remaining>>],
                                 [Reply("quota_full") EXCEPT !.allowance = resp.allowance])
                     ELSE ResolveAward([q EXCEPT !.seen_remaining = resp.remaining,
                                                 !.last_read = <<resp.remaining>>],
                                       bot_id)]
    /\ UNCHANGED <<backend_used, backend_log>>
    /\ UNCHANGED <<rateVars, agentVars, questVars, jobVars>>

\* A decision that confirms only above the confidence threshold.
SmartAwardReply_ThresholdOnly(q, matches) ==
    IF matches = <<>> THEN Reply("how_many")
    ELSE IF ScoreGT(matches[1].score, ConfidentScore)
         THEN [Reply("confirm") EXCEPT !.points = matches[1].item.points,
                                       !.name = matches[1].item.name,
                                       !.remaining = q.seen_remaining]
    ELSE [Reply("disambiguate") EXCEPT !.name = matches[1].item.name,
                                       !.other = IF Len(matches) > 1
                                                 THEN matches[2].item.name ELSE <<>>,
                                       !.remaining = q.seen_remaining]

\* The smart-award decision over the sorted candidates.
SmartAwardReply(q, matches) ==
    IF matches = <<>> THEN Reply("how_many")
    ELSE IF Len(matches) = 1 \/ ScoreGT(matches[1].score, ConfidentScore)
         THEN [Reply("confirm") EXCEPT !.points = matches[1].item.points,
                                       !.name = matches[1].item.name,
                                       !.remaining = q.seen_remaining]
    ELSE [Reply("disambiguate") EXCEPT !.name = matches[1].item.name,
                                       !.other = IF Len(matches) > 1
                                                 THEN matches[2].item.name ELSE <<>>,
                                       !.remaining = q.seen_remaining]

\* client.get_rate_card() answers (an empty list when the request failed).
RateCardReturns(r) ==
    /\ preq[r].pc = "await_rate_card"
    /\ \E card \in PointsCards :
        LET q == [preq[r] EXCEPT !.matches = RankMatches(preq[r].reason, card)]
        IN  preq' = [preq EXCEPT ![r] = Return(q, SmartAwardReply(q, q.matches))]
    /\ UNCHANGED <<backend_used, backend_log>>
    /\ UNCHANGED <<rateVars, agentVars, questVars, jobVars>>

\* get_user_by_slack_id answers; an unknown user with an email is linked
\* (POST /users/link-slack/), and award_points is entered.
LinkReturns(r) ==
    /\ preq[r].pc = "await_link"
    /\ \E known \in BOOLEAN :
        LET q == preq[r]
        IN  /\ preq' = [preq EXCEPT ![r] =
                 AwardPointsCall(IF known THEN q ELSE Call(q, "link_slack_user"))]
            /\ backend_log' = IF known THEN backend_log
                              ELSE Append(backend_log,
                                          MutatingCall(r, q, "link", q.targets[q.idx]))
    /\ UNCHANGED backend_used
    /\ UNCHANGED <<rateVars, agentVars, questVars, jobVars>>

\* is_admin: get_admin_details answers (None on 404 and on any failure) and
\* the answer is cached for the rest of the request.
IsAdminReturns(r) ==
    /\ preq[r].pc = "await_is_admin"
    /\ \E ok \in BOOLEAN :
        LET admin == ok /\ preq[r].user_id \in Admins
            q == [preq[r] EXCEPT !.admin_cache = IF admin THEN "yes" ELSE "no"]
        IN  preq' = [preq EXCEPT ![r] = AfterAdmin(q, admin)]
    /\ UNCHANGED <<backend_used, backend_log>>
    /\ UNCHANGED <<rateVars, agentVars, questVars, jobVars>>

\* An allowance check that decides on the value the request read first.
AllowanceReturns_FirstRead(r) ==
    /\ preq[r].pc = "await_allowance"
    /\ \E fresh \in AllowanceResponses(preq[r].user_id) :
        LET q0 == preq[r]
            resp == IF fresh.kind = "ok" /\ q0.last_read # <<>>
                    THEN [fresh EXCEPT !.remaining = q0.last_read[1]] ELSE fresh
            q == IF resp.kind = "ok" THEN [q0 EXCEPT !.last_read = <<resp.remaining>>]
                 ELSE q0
            verdict == AllowanceVerdict(q.points, resp)
        IN  IF verdict = "post"
            THEN /\ preq' = [preq EXCEPT ![r] =
                               [Call(q, "award") EXCEPT !.pc = "await_post"]]
                 /\ backend_log' = Append(backend_log,
                                          MutatingCall(r, q, "award", q.targets[q.idx]))
            ELSE /\ preq' = [preq EXCEPT ![r] =
                               Rejected(q, verdict, resp)]
                 /\ UNCHANGED backend_log
    /\ UNCHANGED backend_used
    /\ UNCHANGED <<rateVars, agentVars, questVars, jobVars>>

\* award_points: the allowance answers; the award is posted when it fits.
AllowanceReturns(r) ==
    /\ preq[r].pc = "await_allowance"
    /\ \E resp \in AllowanceResponses(preq[r].user_id) :
        LET q0 == preq[r]
            q == IF resp.kind = "ok" THEN [q0 EXCEPT !.last_read = <<resp.remaining>>]
                 ELSE q0
            verdict == AllowanceVerdict(q.points, resp)
        IN  IF verdict = "post"
            THEN /\ preq' = [preq EXCEPT ![r] =
                               [Call(q, "award") EXCEPT !.pc = "await_post"]]
                 /\ backend_log' = Append(backend_log,
                                          MutatingCall(r, q, "award", q.targets[q.idx]))
            ELSE /\ preq' = [preq EXCEPT ![r] =
                               Rejected(q, verdict, resp)]
                 /\ UNCHANGED backend_log
    /\ UNCHANGED backend_used
    /\ UNCHANGED <<rateVars, agentVars, questVars, jobVars>>

\* POST /admin/award/ answers: committed by the backend (200), or refused
\* with an HTTP status that raise_for_status turns into an exception, which
\* the loop catches as an error line of this target.
PostReturns(r) ==
    /\ preq[r].pc = "await_post"
    /\ \E status \in {200, 400, 403, 404, 500} :
        LET q == [preq[r] EXCEPT !.statuses = @ \cup {status}]
        IN  IF status = 200
            THEN /\ backend_used' = backend_used + q.points
                 /\ preq' = [preq EXCEPT ![r] =
                       NextTarget([q EXCEPT !.results =
                                      Append(@, [user |-> q.targets[q.idx],
                                                 idx |-> q.idx])])]
            ELSE /\ UNCHANGED backend_used
                 /\ preq' = [preq EXCEPT ![r] = Rejected(q, "http_error", NoResponse)]
    /\ UNCHANGED backend_log
    /\ UNCHANGED <<rateVars, agentVars, questVars, jobVars>>

\* create_task: the portfolio lookup answers (its result only picks the
\* portfolio), the parameters are validated and the task is posted.
PortfolioReturns(r) ==
    /\ preq[r].pc = "await_portfolio"
    /\ LET q == preq[r]
       IN  IF q.params.task_title = None
           THEN /\ preq' = [preq EXCEPT ![r] = Return(q, Reply("need_title"))]
                /\ UNCHANGED backend_log
           ELSE IF q.params.points = 0
           THEN /\ preq' = [preq EXCEPT ![r] = Return(q, Reply("need_points"))]
                /\ UNCHANGED backend_log
           ELSE /\ preq' = [preq EXCEPT ![r] =
                              [Call(q, "create_task") EXCEPT !.pc = "await_task_post"]]
                /\ backend_log' = Append(backend_log,
                       MutatingCall(r, q, "create_task",
                           IF q.params.target_user = NoRef THEN NoRef
                           ELSE _clean_slack_id(q.params.target_user)))
    /\ UNCHANGED backend_used
    /\ UNCHANGED <<rateVars, agentVars, questVars, jobVars>>

\* The POST of create_task, approve_task or reject_task answers; the backend
\* answers 403 to a requester who is not an admin.  create_task turns 403
\* into its own reply; the other statuses reach the HTTPStatusError handler
\* of _execute_mlai_points.
TaskPostReturns(r) ==
    /\ preq[r].pc = "await_task_post"
    /\ \E answer \in {200, 400, 403, 404, 500} :
        LET status == IF preq[r].user_id \notin Admins THEN 403 ELSE answer
            q == [preq[r] EXCEPT !.statuses = @ \cup {status}]
        IN  preq' = [preq EXCEPT ![r] =
              CASE status = 403 /\ q.action = "create_task" -> Return(q, Reply("cant_create"))
                [] status = 403 -> Return(q, Reply("not_authorized"))
                [] status = 404 -> Return(q, Reply("not_found"))
                [] status = 400 -> Return(q, Reply("bad_request"))
                [] status = 500 -> Return(q, Reply("snag"))
                [] q.action = "create_task" -> Return(q, Reply("created"))
                [] q.action = "approve_task" -> Return(q, Reply("approved"))
                [] OTHER -> Return(q, Reply("rejected"))]
    /\ UNCHANGED <<backend_used, backend_log>>
    /\ UNCHANGED <<rateVars, agentVars, questVars, jobVars>>

\* Two requests in flight at once, both "award <@U2> 5 points" by the
\* admin U1 (one asyncio task per inbound event, main.py).
PairInit ==
    /\ preq = [r \in Reqs |-> IdleRequest]
    /\ backend_used \in InitialUsed
    /\ backend_log = <<>>

BeginAward(r) ==
    BeginWith(r, "U1", NoParams, <<Word("award"), Ref("angle", "U2"), Num(5, TRUE)>>)

PairNext ==
    \E r \in Reqs :
        \/ BeginAward(r)
        \/ PrecheckReturns(r)
        \/ LinkReturns(r)
        \/ IsAdminReturns(r)
        \/ AllowanceReturns(r)
        \/ PostReturns(r)

\* Requests that differ in the extracted action, the title and the words of
\* the text: up to MaxWords words.
MaxWords == 2

BeginResolve(r) ==
    \E a \in {"", "book", "create", "task", "create_task", "award_points", "sing"},
       title \in {None, "Fix docs"},
       n \in 0..MaxWords :
       \E ws \in [1..n -> {"create", "task", "tasks", "balance", "reward",
                            "request", "hello"}] :
          BeginWith(r, "U1", [NoParams EXCEPT !.action = a, !.task_title = title],
                    [i \in 1..n |-> Word(ws[i])])

ResolveNext == BeginResolve("r1")

PointsNext ==
    \E r \in Reqs :
        \/ Begin(r)
        \/ PrecheckReturns(r)
        \/ RateCardReturns(r)
        \/ LinkReturns(r)
        \/ IsAdminReturns(r)
        \/ AllowanceReturns(r)
        \/ PostReturns(r)
        \/ PortfolioReturns(r)
        \/ TaskPostReturns(r)

-----------------------------------------------------------------------------
\* Content factory: the job monitor (SkillExecutor._monitor_generation with
\* ContentFactoryClient.poll_and_wait) and the handler that starts a job
\* (SkillExecutor._execute_content_factory).

MaxPolls == 3

\* Percentage points a poll must be above the last posted one.
ProgressStep == 20

\* A posted chat message: its fixed wording (kind) and what is filled in.
Post(kind, detail, progress) ==
    [kind |-> kind, detail |-> detail, progress |-> progress]

\* str(e) of the exception poll_and_wait raises for a job that reports
\* 'failed': f"Job failed: {status_data.get('error', 'Unknown')}".
JobFailedText(error) == <<"Job failed", error>>

\* The except branch of _monitor_generation: one wording for every
\* exception, with str(e) filled in.
ErrorPost(text) == Post("generation_error", text, 0)

\* A callback that only looks at the progress.
should_update_ProgressOnly(m, status) ==
    status.progress >= m.last_progress + ProgressStep

\* `should_update` of on_progress.
should_update(m, status) ==
    \/ status.progress >= m.last_progress + ProgressStep
    \/ (status.step # m.last_step /\ status.step \in {"researching", "writing", "optimizing", "publishing"})

\* on_progress, called by poll_and_wait inside try/except: the update is
\* posted and remembered, unless post_message raises (caught and printed).
on_progress(m, status, post_ok) ==
    IF should_update(m, status) /\ post_ok
    THEN [m EXCEPT !.posts = Append(@, Post("status_update", <<status.step>>,
                                            status.progress)),
                   !.last_progress = status.progress,
                   !.last_step = status.step]
    ELSE m

\* `except Exception as e:` of _monitor_generation: post_message(error_msg)
\* is not guarded, so a raising post leaves the task with an exception.
HandleException(m, text, post_ok) ==
    IF post_ok
    THEN [m EXCEPT !.pc = "done", !.posts = Append(@, ErrorPost(text))]
    ELSE [m EXCEPT !.pc = "crashed"]

\* ContentFactoryClient.publish_article(self, job_id) called with nargs
\* positional arguments: a call that does not fit the signature raises
\* TypeError before any request is sent.
publish_article(nargs, outcome) ==
    IF nargs # 1 THEN "TypeError" ELSE outcome

\* The rest of the try block once the result is there: the announcement,
\* `await client.publish_article(job_id, github_token)`, the final message.
Publish(m, announce_ok, outcome, final_ok, error_ok) ==
    IF ~announce_ok THEN HandleException(m, <<"SlackApiError">>, error_ok)
    ELSE LET announced == [m EXCEPT !.posts = Append(@, Post("publishing_now", <<>>, 0)),
                                    !.publish_calls = @ + 1]
             published == [announced EXCEPT !.published = @ + 1]
             answer == publish_article(2, outcome)
         IN  CASE answer = "TypeError" ->
                    HandleException(announced, <<"TypeError">>, error_ok)
               [] answer = "raises" ->
                    HandleException(announced, <<"HTTPStatusError">>, error_ok)
               [] answer = "not_success" ->
                    HandleException(published, <<"Publish failed">>, error_ok)
               [] OTHER ->
                    IF final_ok
                    THEN [published EXCEPT !.pc = "done",
                                           !.posts = Append(@, Post("published", <<>>, 0))]
                    ELSE HandleException(published, <<"SlackApiError">>, error_ok)

IdleMonitor ==
    [pc |-> "idle", polls |-> 0, seen |-> {}, observed |-> {}, last_progress |-> -1,
     last_step |-> "", posts |-> <<>>, publish_calls |-> 0, published |-> 0]

IdleCf ==
    [pc |-> "idle", has_details |-> FALSE, has_channel |-> FALSE,
     has_token |-> FALSE, scanned |-> FALSE, has_client |-> FALSE,
     service_ok |-> FALSE, reply |-> None, posts |-> 0, launched |-> FALSE]

JobInit ==
    /\ monitor = IdleMonitor
    /\ cf = IdleCf

JobParked ==
    /\ monitor = [IdleMonitor EXCEPT !.pc = "parked"]
    /\ cf = [IdleCf EXCEPT !.pc = "parked"]

\* _monitor_generation is entered: last_progress = -1, last_step = "".
MonitorStart ==
    /\ monitor.pc = "idle"
    /\ monitor' = [monitor EXCEPT !.pc = "poll"]
    /\ UNCHANGED <<rateVars, agentVars, questVars, pointsVars, cf>>

\* One round of poll_and_wait: get_job_status returns or raises, the
\* callback runs, then 'completed' leaves the loop, 'failed' raises, and
\* any other status sleeps and polls again.
Poll ==
    /\ monitor.pc = "poll"
    /\ monitor.polls < MaxPolls
    /\ \E transport_ok, post_ok, error_ok \in BOOLEAN,
          state \in {"running", "completed", "failed"},
          progress \in {0, 10, 30},
          step \in {"researching", "writing", "unknown"} :
          LET polled == [monitor EXCEPT !.polls = @ + 1]
              status == [state |-> state, progress |-> progress, step |-> step]
              told == on_progress([polled EXCEPT
                                     !.seen = @ \cup {state},
                                     !.observed = @ \cup {[step |-> step,
                                                           post_ok |-> post_ok]}],
                                  status, post_ok)
          IN  monitor' =
                 IF ~transport_ok
                 THEN HandleException(polled, <<"ConnectError">>, error_ok)
                 ELSE CASE state = "completed" -> [told EXCEPT !.pc = "result"]
                        [] state = "failed" ->
                             HandleException(told, JobFailedText("boom"), error_ok)
                        [] OTHER -> told
    /\ UNCHANGED <<rateVars, agentVars, questVars, pointsVars, cf>>

\* `return await self.get_job_result(job_id)` comes back, and the monitor
\* runs on to its end without another suspension that can fail to return.
ResultReturns ==
    /\ monitor.pc = "result"
    /\ \E result_ok, announce_ok, final_ok, error_ok \in BOOLEAN,
          outcome \in {"success", "not_success", "raises"} :
          monitor' =
             IF ~result_ok
             THEN HandleException(monitor, <<"HTTPStatusError">>, error_ok)
             ELSE Publish(monitor, announce_ok, outcome, final_ok, error_ok)
    /\ UNCHANGED <<rateVars, agentVars, questVars, pointsVars, cf>>



\* ContentFactoryClient.generate_article(self, domain, topic,
\* target_keyword, context=None) called with the given keyword arguments: an
\* unknown keyword raises TypeError before any request is sent.
generate_article(keywords, outcome) ==
    IF keywords \subseteq {"domain", "topic", "target_keyword", "context"}
    THEN outcome ELSE "TypeError"

\* The end of _execute_content_factory, after the integration lookup: the
\* scan check, the client class, then the try block that starts the job and
\* launches the monitor when there is a channel.
StartJob(c, scanned, has_client, outcome) ==
    LET answer == generate_article({"domain", "topic", "target_keyword",
                                    "context", "github_token"}, outcome)
        done(reply) == [c EXCEPT !.pc = "returned", !.reply = reply,
                                 !.scanned = scanned, !.has_client = has_client,
                                 !.service_ok = (outcome = "job_id")]
    IN  IF ~scanned THEN done("scan_first")
        ELSE IF ~has_client THEN done("not_configured")
        ELSE IF answer # "job_id" THEN done("trouble_connecting")
        ELSE [done("started") EXCEPT !.launched = c.has_channel]

\* execute() calls the handler with the extracted parameters; without a
\* domain or a topic it asks for them.
CfBegin ==
    /\ cf.pc = "idle"
    /\ \E has_details, has_channel \in BOOLEAN :
          cf' = IF has_details
                THEN [cf EXCEPT !.pc = "token", !.has_details = TRUE,
                                !.has_channel = has_channel]
                ELSE [cf EXCEPT !.pc = "returned", !.reply = "need_details",
                                !.has_channel = has_channel]
    /\ UNCHANGED <<rateVars, agentVars, questVars, pointsVars, monitor>>

\* `github_token = await api_client.get_github_token(user_id)`: a token, or
\* None (also for every error, which the client swallows).
CfTokenReturns ==
    /\ cf.pc = "token"
    /\ \E has_token \in BOOLEAN :
          cf' = [cf EXCEPT !.pc = IF has_token THEN "integration" ELSE "save_intent",
                           !.has_token = has_token]
    /\ UNCHANGED <<rateVars, agentVars, questVars, pointsVars, monitor>>

\* `await api_client.save_pending_intent(...)` comes back, then the connect
\* button is posted; an exception of either leaves the handler and execute()
\* answers with its failure result.
CfIntentSaved ==
    /\ cf.pc = "save_intent"
    /\ \E save_ok, post_ok \in BOOLEAN :
          cf' = IF ~save_ok
                THEN [cf EXCEPT !.pc = "returned", !.reply = "skill_failure"]
                ELSE IF ~cf.has_channel
                THEN [cf EXCEPT !.pc = "returned", !.reply = "connect_url"]
                ELSE IF ~post_ok
                THEN [cf EXCEPT !.pc = "returned", !.reply = "skill_failure"]
                ELSE [cf EXCEPT !.pc = "returned", !.reply = "connect_button",
                                !.posts = @ + 1]
    /\ UNCHANGED <<rateVars, agentVars, questVars, pointsVars, monitor>>

\* `integration = await api_client.get_integration(user_id)` comes back and
\* the handler runs to its return.
CfIntegrationReturns ==
    /\ cf.pc = "integration"
    /\ \E scanned, has_client \in BOOLEAN, outcome \in {"job_id", "raises"} :
          cf' = StartJob(cf, scanned, has_client, outcome)
    /\ UNCHANGED <<rateVars, agentVars, questVars, pointsVars, monitor>>

JobNext ==
    \/ MonitorStart
    \/ Poll
    \/ ResultReturns
    \/ CfBegin
    \/ CfTokenReturns
    \/ CfIntentSaved
    \/ CfIntegrationReturns

(***************************************************************************)
(* The rate-card branch on its own: the scoring loop, the sort and the     *)
(* decision of _handle_points_action for a card and a reason.              *)
(***************************************************************************)
RateInit ==
    /\ rc_card \in RateCards
    /\ rc_reason \in Reasons
    /\ rc_matches = <<>>
    /\ rc_pc = "input"
    /\ rc_reply = NoReply

RateParked ==
    /\ rc_card = <<>>
    /\ rc_reason = <<>>
    /\ rc_matches = <<>>
    /\ rc_pc = "parked"
    /\ rc_reply = NoReply

Rank ==
    /\ rc_pc = "input"
    /\ rc_matches' = RankMatches(rc_reason, rc_card)
    /\ rc_reply' = SmartAwardReply(IdleRequest, rc_matches')
    /\ rc_pc' = "ranked"
    /\ UNCHANGED <<rc_card, rc_reason>>
    /\ UNCHANGED <<agentVars, questVars, pointsVars, jobVars>>

(***************************************************************************)
(* Specifications                                                          *)
(***************************************************************************)
InitRate == RateInit /\ AgentParked /\ QuestParked /\ PointsParked /\ JobParked
InitAgent == AgentInit /\ RateParked /\ QuestParked /\ PointsParked /\ JobParked
InitQuest == QuestInit /\ RateParked /\ AgentParked /\ PointsParked /\ JobParked
InitPoints == PointsInit /\ RateParked /\ AgentParked /\ QuestParked /\ JobParked
InitJob == JobInit /\ RateParked /\ AgentParked /\ QuestParked /\ PointsParked

SpecRate == InitRate /\ [][Rank]_vars

SpecAgent == InitAgent /\ [][AgentNext]_vars

SpecQuest == InitQuest /\ [][QuestNext]_vars
SpecPoints == InitPoints /\ [][PointsNext]_vars

SpecJob == InitJob /\ [][JobNext]_vars

\* The event loop runs every task that is ready: a coroutine whose await
\* has an answer goes on, and poll_and_wait polls again after its sleep.
JobFairness ==
    /\ WF_vars(MonitorStart) /\ WF_vars(Poll) /\ WF_vars(ResultReturns)
    /\ WF_vars(CfBegin) /\ WF_vars(CfTokenReturns) /\ WF_vars(CfIntentSaved)
    /\ WF_vars(CfIntegrationReturns)

SpecJobFair == InitJob /\ [][JobNext]_vars /\ JobFairness

InitPair == PairInit /\ RateParked /\ AgentParked /\ QuestParked /\ JobParked
SpecPair == InitPair /\ [][PairNext]_vars

SpecResolve == InitPoints /\ [][ResolveNext]_vars

(***************************************************************************)
(* Properties.                                                             *)
(***************************************************************************)
InCalls(name) == \E i \in DOMAIN agent_calls : agent_calls[i] = name

\* C1: once the normalized text of a mention matches a fast-path pattern,
\* handle_mention never invokes _select_skill, _general_response or any
\* language-model call in that request, whatever the skill registry holds.
C1_FastPathNeverSelects ==
    (agent_pc \notin {"idle", "parked"} /\ FastPathAction(CleanText) # None)
        => /\ ~InCalls("_select_skill")
           /\ ~InCalls("_general_response")
           /\ ~InCalls("chat")

\* C2: for every (user, quest) pair the completion reward call
\* (system_award_points through _complete_quest) is attempted at most once,
\* first_contact included, over every sequence and interleaving of events.
C2_RewardAtMostOnce == \A p \in Pairs : reward_calls[p] <= 1

ExactEntries == {i \in DOMAIN rc_card : rc_card[i].name = rc_reason}

\* C8 as stated: when the reason equals the name of exactly one entry of the
\* card, that entry is first in the ranking with a score of at least 80 and
\* no other candidate ties with it or outranks it.
C8_ExactNameUniqueTop ==
    (rc_pc = "ranked" /\ Cardinality(ExactEntries) = 1)
        => /\ rc_matches # <<>>
           /\ \A i \in ExactEntries : rc_matches[1].item = rc_card[i]
           /\ ScoreGE(rc_matches[1].score, ConfidentScore)
           /\ Len(rc_matches) >= 2
                 => ScoreLess(rc_matches[2].score, rc_matches[1].score)

\* C8 amended: when the reason equals the name of exactly one entry, that
\* entry is a candidate with a score of at least 150 (name bonus plus a full
\* similarity), the top score is above the confidence threshold, and another
\* entry ties with it or outranks it only if its name contains the reason
\* (ignoring case) and either equals the reason up to case or its
\* description contains the reason too.
C8_ExactNameRanked ==
    (rc_pc = "ranked" /\ Cardinality(ExactEntries) = 1)
        => \A i \in ExactEntries :
             LET own == ScoreOf(rc_reason, rc_card[i])
                 low == LowerStr(rc_reason)
             IN  /\ ScoreGE(own, NameBonus + Percent)
                 /\ \E k \in DOMAIN rc_matches :
                       rc_matches[k].item = rc_card[i] /\ ScoreEq(rc_matches[k].score, own)
                 /\ ScoreGT(rc_matches[1].score, ConfidentScore)
                 /\ \A k \in DOMAIN rc_matches :
                       (rc_matches[k].item # rc_card[i]
                        /\ ~ScoreLess(rc_matches[k].score, own))
                          => /\ IsSubstring(low, LowerStr(rc_matches[k].item.name))
                             /\ \/ LowerStr(rc_matches[k].item.name) = low
                                \/ IsSubstring(low, LowerStr(rc_matches[k].item.description))

\* A ranked card of two entries where the reason names the second entry and
\* the first entry outranks it.
C8_Witness ==
    /\ rc_pc = "ranked"
    /\ Len(rc_card) = 2
    /\ ExactEntries = {2}
    /\ Len(rc_matches) = 2
    /\ rc_matches[1].item = rc_card[1]
    /\ ScoreLess(rc_matches[2].score, rc_matches[1].score)

\* C10: when an error is raised after a fast-path pattern matched (building
\* the client, calling the backend, formatting the answer), handle_mention
\* returns the apology marked "mlai-points (fast-error)", the exception does
\* not leave it, and skill selection is not entered.
C10_FastPathErrorCaught ==
    InCalls("raise")
        => /\ agent_pc = "returned"
           /\ agent_result = FastError
           /\ agent_result # Raised
           /\ ~InCalls("_select_skill")
           /\ ~InCalls("_general_response")

\* A matched fast path whose backend call raised.
C10_Witness ==
    /\ agent_pc = "returned"
    /\ FastPathAction(CleanText) # None
    /\ InCalls("raise")
    /\ agent_result.skill_used = "mlai-points (fast-error)"


AwardLog(r) ==
    {i \in DOMAIN backend_log : backend_log[i].req = r /\ backend_log[i].op = "award"}

QuotaKinds == {"quota_full", "quota_partial"}
AwardActions == {"award_points", "award"}
Self(q) == UserRef("bare", q.user_id)

\* C3 as stated: every award attempt with a positive amount, for which the
\* allowance the request has read from the backend is below the amount, is
\* rejected with a quota-exceeded message.
C3_ShortAllowanceIsQuotaError ==
    \A r \in Reqs : \A i \in DOMAIN preq[r].errors :
        LET e == preq[r].errors[i]
        IN  (preq[r].points > 0 /\ e.seen # <<>> /\ e.seen[1] < preq[r].points)
                => e.error \in QuotaKinds

\* C3 amended: an award attempt that reaches the allowance check of
\* award_points (the requester passed the admin check and the target is not
\* the requester) and reads a remaining allowance below the positive amount
\* makes no POST to the award endpoint and is answered with the quota message
\* stating the allowance (and the remaining points when some are left); every
\* POST follows a read that covers the amount; and a request stopped by the
\* early check with nothing remaining posts nothing.
C3_ShortAllowanceNoPost ==
    \A r \in Reqs :
        LET q == preq[r]
        IN  /\ \A i \in DOMAIN q.errors :
                 LET e == q.errors[i]
                 IN  (e.read # <<>> /\ e.read[1] < q.points)
                        => /\ e.error \in QuotaKinds
                           /\ e.allowance = WeeklyAllowance
                           /\ e.error = "quota_partial" => e.remaining = e.read[1]
                           /\ \A k \in AwardLog(r) : backend_log[k].idx # e.idx
            /\ \A k \in AwardLog(r) :
                 /\ backend_log[k].read # <<>>
                 /\ backend_log[k].points > 0
                 /\ backend_log[k].points <= backend_log[k].read[1]
            /\ q.reply.kind = "quota_full"
                 => AwardLog(r) = {} /\ q.reply.allowance = WeeklyAllowance

\* A finished request in which one target was awarded and the next one was
\* refused because fewer points than the amount were left.
C3_Witness ==
    \E r \in Reqs :
        /\ preq[r].pc = "done"
        /\ preq[r].results # <<>>
        /\ \E i \in DOMAIN preq[r].errors :
              /\ preq[r].errors[i].error = "quota_partial"
              /\ preq[r].errors[i].read[1] < preq[r].points

\* C4: a positive award whose cleaned target is the requesting admin is
\* rejected and never posted to the award endpoint, whatever the allowance.
C4_SelfAwardNeverPosted ==
    /\ \A k \in DOMAIN backend_log :
          backend_log[k].op = "award"
             => _clean_slack_id(backend_log[k].target) # UserRef("bare", backend_log[k].by)
    /\ \A r \in Reqs :
          LET q == preq[r]
          IN  /\ \A i \in DOMAIN q.results : _clean_slack_id(q.results[i].user) # Self(q)
              /\ q.pc \in {"await_allowance", "await_post"}
                    => _clean_slack_id(q.targets[q.idx]) # Self(q)
              /\ (q.pc = "done" /\ q.reply.kind \in {"awarded_one", "awarded_each"})
                    => \A i \in DOMAIN q.targets :
                          _clean_slack_id(q.targets[i]) = Self(q)
                             => \E j \in DOMAIN q.errors : q.errors[j].idx = i

\* An admin with points left whose award to themselves was refused.
C4_Witness ==
    \E r \in Reqs :
        /\ preq[r].pc = "done"
        /\ preq[r].user_id \in Admins
        /\ backend_used < WeeklyAllowance
        /\ \E i \in DOMAIN preq[r].errors : preq[r].errors[i].error = "self_award"

\* C5: every backend call that performs an admin action (create, approve or
\* reject a task, award points) is issued after the request has checked that
\* the requester is an admin and the check has passed.
C5_AdminCheckedBeforeCall ==
    \A k \in DOMAIN backend_log :
        backend_log[k].op \in {"create_task", "approve_task", "reject_task", "award"}
            => backend_log[k].admin_ok

HasNumber(text) == \E i \in DOMAIN text : text[i].t = "num"

HasCandidate(reason) == \E card \in PointsCards : Candidates(reason, card) # <<>>

\* C6: an award request with no amount in the parameters and none stated in
\* the text, whose reason has a candidate on the rate card, makes no call to
\* the award endpoint, for every form of the target's user id in the text.
C6_NoAmountNeverAwards ==
    \A r \in Reqs :
        (preq[r].action \in AwardActions /\ preq[r].params.points = 0
         /\ ~HasNumber(preq[r].text) /\ HasCandidate(ReasonOf(preq[r].params)))
            => AwardLog(r) = {}

SingleMatchRequest(q) ==
    /\ q.pc = "done"
    /\ q.params.action = "award_points"
    /\ q.params.target_user # NoRef
    /\ q.params.reason \notin {NoReason, <<>>}
    /\ q.params.points = 0
    /\ Len(q.matches) = 1

C11_BookTodayUsesZoneDate ==
    (/\ agent_pc = "returned"
     /\ FastPathAction(CleanText) = "book_coworking"
     /\ HasPointsSkill(skills) /\ PointsSkill(skills).has_client
     /\ ~InCalls("raise"))
        => /\ Len(agent_bookings) = 1
           /\ agent_bookings[1].user_id = agent_req.user_id
           /\ agent_bookings[1].date = agent_bookings[1].zone_today
           /\ agent_bookings[1].echoed = agent_bookings[1].points_cost

\* The routing model call failed, or its answer names no registry skill
\* after lower-casing and reading "_" as "-".
SelectorFailed ==
    /\ agent_answer # None
    /\ \/ agent_answer = "raise"
       \/ \A i \in DOMAIN skills :
             NormalizeSkillName(skills[i].name) # NormalizeSkillName(agent_answer)

\* C12: when the skill-routing model call fails or names no registry skill,
\* _select_skill returns None and handle_mention answers with the general
\* reply or its canned apology: no skill runs, no error result, no raise.
C12_SelectorFailureFallsBack ==
    SelectorFailed
        => /\ agent_skill = 0
           /\ agent_pc \in {"general", "returned"}
           /\ ~InCalls("execute")
           /\ agent_pc = "returned"
                 => /\ agent_result.skill_used = None
                    /\ agent_result.data = None
                    /\ agent_result.message \in {"general_reply", "general_apology"}

C12_Witness ==
    /\ SelectorFailed
    /\ agent_answer = "raise"
    /\ skills # <<>>
    /\ agent_pc = "returned"
    /\ agent_result.message = "general_apology"

\* C13: when parameter extraction fails (its model call raises, or its
\* output is not parsable), the extractor yields the empty map, the selected
\* skill's handler still runs with it, and execute() ends in its failure
\* result only if the handler itself raised.
C13_ExtractionFailureNotFatal ==
    (agent_pc = "returned" /\ (InCalls("chat_raises") \/ InCalls("JSONDecodeError")))
        => /\ InCalls("handler")
           /\ agent_result.message = "skill_failure" => InCalls("handler_raises")
           /\ agent_result.message = "skill_message" => agent_result.data = "{}"

\* The error messages the monitor posted.
ErrorPosts == {i \in DOMAIN monitor.posts : monitor.posts[i].kind = "generation_error"}
MonitorEnded == monitor.pc \in {"done", "crashed"}

\* C14: once a poll has observed 'completed' the monitor calls publish for
\* the job exactly once and posts the published message; once a poll has
\* observed 'failed' publish is never called and one error message with the
\* job's error text is posted; publish is never called before 'completed'.
C14_CompletedIsPublished ==
    /\ (MonitorEnded /\ "completed" \in monitor.seen)
          => /\ monitor.publish_calls = 1
             /\ monitor.published = 1
             /\ \E i \in DOMAIN monitor.posts : monitor.posts[i].kind = "published"
    /\ (MonitorEnded /\ "failed" \in monitor.seen)
          => /\ monitor.publish_calls = 0
             /\ Cardinality(ErrorPosts) = 1
             /\ \A i \in ErrorPosts : monitor.posts[i].detail = JobFailedText("boom")
    /\ monitor.publish_calls > 0 => "completed" \in monitor.seen

\* C15: a transport error while polling and a failure the job itself
\* reports give user-facing messages of two different classes (wordings).
C15_TransportErrorIsOwnClass ==
    \A i \in ErrorPosts :
        monitor.posts[i].detail = <<"ConnectError">>
            => monitor.posts[i].kind # ErrorPost(JobFailedText("boom")).kind

\* C16: a content-generation request that gets as far as starting the job
\* (details, token, scanned project, client, job service answering) returns
\* the started reply at once, and with a channel the monitor is launched and
\* has not polled yet when the reply is there.
C16_StartedReplyWithoutPolling ==
    (/\ cf.pc = "returned"
     /\ cf.has_details /\ cf.has_token /\ cf.scanned /\ cf.has_client
     /\ cf.service_ok)
        => /\ cf.reply = "started"
           /\ cf.has_channel => cf.launched

\* C17: once the reward for a quest completion has failed (backend error,
\* or bot identity not resolved), no later event or duplicate delivery makes
\* a reward attempt for that (user, quest) pair, and the completion marker
\* of a counter-tracked pair stays set.
C17_NoRewardAfterFailure ==
    [][\A p \in Pairs :
          p \in reward_failed
             => /\ reward_calls'[p] = reward_calls[p]
                /\ p \in completed_quests => p \in completed_quests']_vars

\* The reply classes the HTTPStatusError handler has for a status.
StatusReplies(status) ==
    CASE status = 403 -> {"not_authorized", "cant_create"}
      [] status = 404 -> {"not_found"}
      [] status = 400 -> {"bad_request"}
      [] OTHER -> {}

\* C18: for every points action, award included, a request whose backend
\* call was answered 403, 404 or 400 ends with the not-authorized reply, the
\* double-check reply or the reply carrying the upstream reason.
C18_StatusGivesItsMessage ==
    \A r \in Reqs : \A status \in {400, 403, 404} :
        (preq[r].pc = "done" /\ preq[r].statuses = {status})
            => preq[r].reply.kind \in StatusReplies(status)

\* C19: whatever model, chat-platform or backend call fails while an event
\* is handled, the detached job monitor included, the task ends without an
\* exception leaving it.
C19_NoUnhandledException == monitor.pc # "crashed"

CounterPairs == {p \in Pairs : p[2] \in CounterQuests}

Target(p) == QUESTS[p[2]].target_count

\* C20: for every counter-tracked (user, quest) pair, under every
\* interleaving of the handlers: the pair is marked completed exactly when
\* its count has reached target_count, the count never exceeds target_count,
\* and no increment is lost (the count is the number of _update_progress
\* calls made for the pair, up to the target).
C20_CounterInvariant ==
    \A p \in CounterPairs :
        /\ p \in completed_quests <=> quest_progress[p] >= Target(p)
        /\ quest_progress[p] <= Target(p)
        /\ quest_progress[p] = IF quest_updates[p] <= Target(p)
                               THEN quest_updates[p] ELSE Target(p)

\* A pair with a target above one completed while another handler was
\* suspended, and called again afterwards.
C20_Witness ==
    /\ <<"U1", "helper">> \in completed_quests
    /\ quest_progress[<<"U1", "helper">>] = 3
    /\ \E p \in CounterPairs : quest_updates[p] > Target(p)
    /\ quest_tasks # <<>>

AwardPosts == {k \in DOMAIN backend_log : backend_log[k].op = "award"}

\* C21: every POST to the award endpoint follows an allowance read of its
\* own request that covers its amount, and still two concurrent award
\* requests of one admin can overspend: the backend ends above the weekly
\* allowance only when two requests read the allowance before either award
\* was committed (both POSTs carry the same read).
C21_OverspendOnlyByRace ==
    /\ \A k \in AwardPosts :
          /\ backend_log[k].read # <<>>
          /\ backend_log[k].read[1] >= backend_log[k].points
    /\ backend_used > WeeklyAllowance
          => \E k, l \in AwardPosts :
                /\ backend_log[k].req # backend_log[l].req
                /\ backend_log[k].by = backend_log[l].by
                /\ backend_log[k].read = backend_log[l].read

\* Both requests passed the check on the same reading, and the amounts
\* posted exceed what that reading left.
C21_Witness ==
    \E k, l \in AwardPosts :
        /\ backend_log[k].req # backend_log[l].req
        /\ backend_log[k].by = backend_log[l].by
        /\ backend_log[k].read = backend_log[l].read
        /\ backend_log[k].points + backend_log[l].points > backend_log[k].read[1]
        /\ backend_used > WeeklyAllowance

StatusUpdates == SelectSeq(monitor.posts, LAMBDA p : p.kind = "status_update")

\* What the k-th notification is compared with: the notification before it,
\* or the initial last_progress = -1, last_step = "".
Before(k) ==
    IF k = 1 THEN [progress |-> 0 - 1, detail |-> <<"">>] ELSE StatusUpdates[k - 1]

PostedOnlyOnChange ==
    \A k \in DOMAIN StatusUpdates :
        LET p == StatusUpdates[k]
        IN  \/ p.progress >= Before(k).progress + ProgressStep
            \/ /\ p.detail # Before(k).detail
               /\ p.detail[1] \in {"researching", "writing", "optimizing", "publishing"}

Notified(step) == \E k \in DOMAIN StatusUpdates : StatusUpdates[k].detail = <<step>>

SelectorCalls == {i \in DOMAIN agent_calls : agent_calls[i] = "_select_skill"}

SelectorChats ==
    {i \in SelectorCalls : i < Len(agent_calls) /\ agent_calls[i + 1] = "chat"}

\* The skill at place i of the registry has a trigger keyword that, in lower
\* case, is in the lower-cased text.
HasTrigger(i) ==
    \E kw \in skills[i].trigger_keywords :
        \E k \in DOMAIN CleanText : LowerWord(CleanText[k]) = LowerWord(kw)

\* C24: once _select_skill has run, if some skill has a trigger keyword in
\* the text the selected skill is the first such skill of the registry and
\* the classification model was not called; the model is called only when
\* no skill has such a keyword, and at most once per request.
C24_FirstKeywordSkillWins ==
    /\ Cardinality(SelectorCalls) <= 1
    /\ SelectorChats # {} => \A i \in DOMAIN skills : ~HasTrigger(i)
    /\ (SelectorCalls # {} /\ \E i \in DOMAIN skills : HasTrigger(i))
          => /\ agent_skill \in DOMAIN skills
             /\ HasTrigger(agent_skill)
             /\ \A j \in 1..(agent_skill - 1) : ~HasTrigger(j)
             /\ SelectorChats = {}

\* The selector ran on a text in which two skills have a keyword, one of
\* them in another case than the text's, and took the first.
C24_Witness ==
    /\ SelectorCalls # {}
    /\ agent_skill = 1
    /\ Len(skills) = 2 /\ HasTrigger(1) /\ HasTrigger(2)
    /\ \E k \in DOMAIN CleanText : CleanText[k] = "points"

Resolved == {r \in Reqs : preq[r].pc # "idle" /\ preq[r].pc # "parked"}

Said(q, w) == \E i \in DOMAIN q.text : q.text[i].t = "word" /\ q.text[i].w = w

\* The extracted action after alias collapsing, where an extracted action
\* decides at all: "book" is book_coworking; "create", "task" and
\* "create_task" are create_task when a title or the word "create" backs it.
Collapsed(q) ==
    LET a == q.params.action
    IN  IF a = "book" THEN "book_coworking"
        ELSE IF a \in {"create", "task", "create_task"}
                /\ (q.params.task_title # None \/ Said(q, "create"))
             THEN "create_task"
        ELSE a

\* The text rules that the words used here can trigger, in their order.
FirstTextRule(q) ==
    IF Said(q, "balance") THEN "balance"
    ELSE IF Said(q, "tasks") THEN "list_tasks"
    ELSE IF (Said(q, "reward") /\ Said(q, "request")) THEN "request_reward"
    ELSE IF (Said(q, "task") /\ Said(q, "create")) THEN "create_task"
    ELSE IF Said(q, "reward") THEN "award_points"
    ELSE ""

HandledActions ==
    MemberActions \cup {"award_points", "award", "deduct_points", "deduct",
                        "approve_task", "reject_task", "create_task"}

GenericPathOnly(q) ==
    q.pc = "done" /\ q.reply.kind = "llm_fallback" /\ q.calls = <<>> /\ backend_log = <<>>

\* C25 as stated: an extracted action parameter, after alias collapsing,
\* is the canonical action and the text rules are consulted only when no
\* action parameter was extracted.
C25_ExtractedActionIsFinal ==
    \A r \in Resolved :
        preq[r].params.action # "" => preq[r].action = Collapsed(preq[r])

\* C25 amended: an extracted action other than an unbacked "task" is the
\* canonical action after alias collapsing; without an extracted action, or
\* with an extracted "task" that neither a title nor the word "create"
\* backs, the first matching text rule decides and the extracted value
\* stays when no rule matches; and when the result is no action of the
\* dispatcher the generic path answers and no backend call is made.
C25_ActionResolution ==
    \A r \in Resolved :
        LET q == preq[r]
            by_text == q.params.action = "" \/ Collapsed(q) = "task"
        IN  /\ ~by_text => q.action = Collapsed(q)
            /\ by_text => q.action = IF FirstTextRule(q) # "" THEN FirstTextRule(q)
                                     ELSE q.params.action
            /\ q.action \notin HandledActions => GenericPathOnly(q)

\* An extracted "task" without backing resolved by a text rule, one that an
\* earlier rule wins over a later matching one.
C25_Witness ==
    \E r \in Resolved :
        LET q == preq[r]
        IN  /\ q.params.action = "task" /\ q.params.task_title = None
            /\ Said(q, "reward") /\ Said(q, "request")
            /\ q.action = "request_reward"

\* The award requests whose targets have been resolved.
AwardResolved ==
    {r \in Reqs : /\ preq[r].action \in {"award_points", "award"}
                  /\ preq[r].pc \notin {"idle", "parked", "await_precheck"}
                  /\ preq[r].reply.kind \notin {"not_authorized", "quota_full"}}

\* The ids of the plain user mentions of the text, the bot's left out.
TextMentions(q) ==
    LET at == SelectSeq(q.text, LAMBDA t : t.t = "ref" /\ t.form = "angle" /\ t.id # BotId)
    IN  [i \in DOMAIN at |-> at[i].id]

TargetIdsOf(q) == [i \in DOMAIN q.targets |-> q.targets[i].id]

\* C26: the targets of an award request are the user mentions of the text
\* other than the bot's; the target of the parameters is used only when the
\* text has no user mention; the bot is never a target; and without a
\* target the reply is the who-to-award question and no award call is made.
C26_TargetsFromTextWithoutBot ==
    \A r \in AwardResolved :
        LET q == preq[r]
        IN  /\ TextMentions(q) # <<>> => TargetIdsOf(q) = TextMentions(q)
            /\ \A i \in DOMAIN q.targets : q.targets[i].id # BotId
            /\ q.targets = <<>> => (q.reply.kind = "who" /\ q.calls = <<"get_admin_allowance">>)

\* The first number of the text that a points unit follows, 0 without one.
UnitAmount(q) ==
    LET at == SelectSeq(q.text, LAMBDA t : t.t = "num" /\ t.unit)
    IN  IF at = <<>> THEN 0 ELSE at[1].v

Called(q, name) == \E i \in DOMAIN q.calls : q.calls[i] = name

\* C27: the amount of an award with a target is the amount of the
\* parameters when there is one, otherwise the number of the text that a
\* points unit follows, and never a number without a unit; the rate card is
\* read only when neither gives an amount, and without an amount no award
\* call is made.
C27_AmountFromParamsOrUnitNumber ==
    \A r \in AwardResolved :
        LET q == preq[r]
            amount == IF q.params.points # 0 THEN q.params.points ELSE UnitAmount(q)
        IN  q.targets # <<>>
               => /\ q.points = amount
                  /\ Called(q, "get_rate_card") => amount = 0
                  /\ amount = 0 => ~Called(q, "award")

\* The places of the card whose score is above the inclusion threshold.
CandidatePlaces ==
    {i \in DOMAIN rc_card : ScoreGT(ScoreOf(rc_reason, rc_card[i]), MinScore)}

\* The entry matches the reason through its description alone: the reason is
\* in the description, not in the name, and the names are not similar.
DescriptionOnly(item) ==
    LET low == LowerStr(rc_reason)
        name == LowerStr(item.name)
    IN  /\ IsSubstring(low, LowerStr(item.description))
        /\ ~IsSubstring(low, name)
        /\ 2 * Percent * Matches(low, name) <= SeqThreshold * (Len(low) + Len(name))

Ranked(item) == \E k \in DOMAIN rc_matches : rc_matches[k].item = item

C29_AwardedOnlyAfterSuccess ==
    \A r \in Reqs :
        preq[r].reply.kind \in {"awarded_one", "awarded_each"}
            => Len(preq[r].results) >= 1

FailureReported ==
    \E k \in DOMAIN monitor.posts :
        /\ monitor.posts[k].kind = "generation_error"
        /\ monitor.posts[k].detail = JobFailedText("boom")

\* C30: a job the dispatcher started is monitored, with or without a
\* channel id, and under fair polling a job seen 'completed' is eventually
\* published and a job seen 'failed' is eventually reported.
C30_StartedJobFollowedToItsEnd ==
    /\ [](cf.reply = "started" => cf.launched)
    /\ ("completed" \in monitor.seen) ~> (monitor.published > 0)
    /\ ("failed" \in monitor.seen) ~> FailureReported

=============================================================================
